---------------------------- MODULE Spec2Model ----------------------------
(***************************************************************************)
(* A model of MongoDBDatabaseAdapter (src/unnamed/part_000): the           *)
(* connection life cycle with its vector-search capability probe, the      *)
(* memory and knowledge search paths (native vector search and the         *)
(* application-level fallback), and the result cache.                      *)
(*                                                                         *)
(* Every `await` of the TypeScript source is a step boundary: the code     *)
(* between two awaits runs atomically (one JavaScript task), and calls     *)
(* issued by different callers interleave only at those boundaries.        *)
(* The document store is the environment: the outcome of each store        *)
(* request (success, failure, which documents a vector index returns) is   *)
(* chosen nondeterministically.                                            *)
(***************************************************************************)
EXTENDS Integers, Sequences, FiniteSets, TLC

VARIABLES
    hasVectorSearch,                \* this.hasVectorSearch
    isConnected,                    \* this.isConnected
    isVectorSearchIndexComputable,  \* this.isVectorSearchIndexComputable
    memories,                       \* collection "memories", in natural order
    knowledge,                      \* collection "knowledge", in natural order
    cache,                          \* collection "cache": key -> entry
    now,                            \* the clock (Date.now()), in clock units
    pc,                             \* per caller: the await it is suspended at
    call,                           \* per caller: the operation and its arguments
    cont,                           \* per caller: where to resume once init() returns
    local,                          \* per caller: locals of the running call
    result,                         \* per caller: what the call returned or threw
    probeCount,                     \* serverStatus probes since construction / close
    levenshteinMatrix               \* this.levenshteinMatrix: rows of cells

vars == <<hasVectorSearch, isConnected, isVectorSearchIndexComputable,
          memories, knowledge, cache, now, pc, call, cont, local, result,
          probeCount, levenshteinMatrix>>

adapterFields == <<hasVectorSearch, isConnected, isVectorSearchIndexComputable>>
storeVars == <<memories, knowledge, cache>>

----------------------------------------------------------------------------
(* Bounds of the model.                                                    *)

\* Callers that may have a call in flight at the same time.
Callers == {"c1", "c2"}

\* The largest match_count a search is issued with.
MaxMatchCount == 2

\* probeCount saturates here.
MaxProbes == 2

\* The number of memories createMemory adds to the seeded collection.
MaxCreated == 2

\* The number of times the clock advances.
MaxTicks == 2

----------------------------------------------------------------------------
(* Numbers.  A JavaScript / BSON number is modelled as an exact rational   *)
(* <<n, d>> with d > 0, or NaN (0/0).                                      *)

NaN == <<0, 0>>

IsNaN(x) == x[2] = 0

Abs(i) == IF i < 0 THEN -i ELSE i

RECURSIVE Gcd(_, _)
Gcd(a, b) == IF b = 0 THEN a ELSE Gcd(b, a % b)

Rat(n, d) ==
    IF d = 0 THEN NaN
    ELSE LET g == Gcd(Abs(n), Abs(d))
             s == IF d < 0 THEN -1 ELSE 1
         IN  <<(s * n) \div g, (s * d) \div g>>

RMul(x, y) == IF IsNaN(x) \/ IsNaN(y) THEN NaN ELSE Rat(x[1] * y[1], x[2] * y[2])
RAdd(x, y) == IF IsNaN(x) \/ IsNaN(y) THEN NaN
              ELSE Rat(x[1] * y[2] + y[1] * x[2], x[2] * y[2])
\* Comparisons with NaN are false, as in JavaScript and in BSON $gte on a
\* missing field.
RLt(x, y)  == ~IsNaN(x) /\ ~IsNaN(y) /\ x[1] * y[2] < y[1] * x[2]
RGeq(x, y) == ~IsNaN(x) /\ ~IsNaN(y) /\ x[1] * y[2] >= y[1] * x[2]
RGt(x, y)  == RLt(y, x)

\* Math.sqrt on the squared norms that occur (perfect squares).
ISqrt(n) == CHOOSE r \in 0..n : r * r = n


----------------------------------------------------------------------------
(* Values.                                                                 *)

NULL == "null"

Rooms == {"r1", "r2"}

\* Embeddings are short integer vectors whose norms are integers, so that
\* every cosine similarity is an exact rational.  <<3,4>> and <<4,3>> have
\* cosine 24/25 = 0.96, above the dedup threshold 0.95.
ZeroEmbedding == <<0, 0>>

\* embedding: null
NoEmbedding == <<>>

\* A document of "memories"; similarity is the field the fallback ranking
\* adds (NaN until then).
Memory(id, type, roomId, agentId, unique, embedding, createdAt, content) ==
    [id |-> id, type |-> type, roomId |-> roomId, agentId |-> agentId,
     unique |-> unique, embedding |-> embedding, createdAt |-> createdAt,
     content |-> content, similarity |-> NaN]

\* The documents the "memories" collection holds when the adapter is
\* constructed (the store outlives the adapter).  createdAt is "Date" (what
\* createMemory writes), "string" or "number"; content is "object" or
\* "string" (JSON text).  m5 is a memory created without an embedding:
\* createMemory stores embedding: null and unique: true.
SeedMemories ==
    << Memory("m1", "messages", "r1", "a1", TRUE,  <<3, 4>>, "Date",   "object"),
       Memory("m2", "messages", "r2", "a1", TRUE,  <<4, 3>>, "string", "string"),
       Memory("m3", "messages", "r1", "a2", FALSE, <<1, 0>>, "number", "object"),
       Memory("m4", "facts",    "r1", "a1", TRUE,  <<0, 1>>, "Date",   "object"),
       Memory("m5", "messages", "r2", "a2", TRUE,  NoEmbedding, "Date", "object") >>

\* One shape for the arguments of every operation; an operation reads only
\* its own parameters.
Args(op, tableName, roomId, agentId, embedding, threshold, count, unique, searchText) ==
    [op |-> op, tableName |-> tableName, roomId |-> roomId, agentId |-> agentId,
     embedding |-> embedding, match_threshold |-> threshold,
     match_count |-> count, unique |-> unique, searchText |-> searchText,
     id |-> NULL, isShared |-> FALSE, key |-> <<>>, value |-> <<>>]

NoCall == Args("none", NULL, NULL, NULL, ZeroEmbedding, NaN, 0, FALSE, <<>>)

SimpleCall(op) == [NoCall EXCEPT !.op = op]

\* Locals of a running call: how its capability detection went (detect,
\* stdIdx), which search path it took (path), whether it issued a native
\* vector-search request and under which flag value (native), what the
\* knowledge pipeline it built takes vectorScore from (scoreFrom), how its
\* fallback query went (fallback), the rows its fallback query returned
\* (raw), the scored candidates of its knowledge pipeline (cand), the operation whose try block the running call was made from
\* (outer), and the id of the document the call inserted (inserted).
NoLocal == [detect |-> "none", stdIdx |-> "none", path |-> "none",
            native |-> "none", scoreFrom |-> "none", fallback |-> "none",
            raw |-> <<>>, cand |-> <<>>, outer |-> "none", inserted |-> "none"]

\* What a call returned, or which request's failure it threw (by).
NoResult == [status |-> "none", value |-> <<>>, by |-> "none"]
Returned(v) == [status |-> "ok", value |-> v, by |-> "none"]
Thrown(by) == [status |-> "error", value |-> <<>>, by |-> by]

\* A call that completed normally after its catch block swallowed the
\* failure of `by`.
Swallowed(by) == [status |-> "ok", value |-> <<>>, by |-> by]

----------------------------------------------------------------------------
(* The capability flag of the specification, read off the adapter's two    *)
(* booleans: searches are gated by hasVectorSearch alone; a cleared        *)
(* isVectorSearchIndexComputable records that a probe has ruled native     *)
(* search out.                                                             *)
Capability ==
    IF hasVectorSearch THEN "native-available"
    ELSE IF isVectorSearchIndexComputable THEN "unknown"
    ELSE "fallback-only"

----------------------------------------------------------------------------
(* Connection life cycle.                                                  *)

\* A call returns or throws.  Made from the try block of createMemory, a
\* search hands its rows to createMemory, which goes on to the insert, and
\* its error to createMemory's catch, which logs it and returns.
Finish(p, r) ==
    /\ cont' = [cont EXCEPT ![p] = "none"]
    /\ IF local[p].outer = "createMemory"
       THEN IF r.status = "error"
            THEN /\ pc' = [pc EXCEPT ![p] = "done"]
                 /\ result' = [result EXCEPT ![p] = Swallowed(r.by)]
            ELSE /\ pc' = [pc EXCEPT ![p] = "cm_insert"]
                 /\ result' = [result EXCEPT ![p] = r]
       ELSE /\ pc' = [pc EXCEPT ![p] = "done"]
            /\ result' = [result EXCEPT ![p] = r]

\* ensureConnection(): when connected the caller resumes at k; otherwise
\* init() runs up to its first await (db.connect()).
EnsureConnection(p, k) ==
    /\ pc' = [pc EXCEPT ![p] = IF isConnected THEN k ELSE "init_connect"]
    /\ cont' = [cont EXCEPT ![p] = IF isConnected THEN "none" ELSE k]

\* init() guard: a completed initialization returns at once.
InitGuard(p) ==
    IF isConnected
    THEN Finish(p, Returned(<<>>))
    ELSE /\ pc' = [pc EXCEPT ![p] = "init_connect"]
         /\ cont' = [cont EXCEPT ![p] = "done"]
         /\ UNCHANGED result

\* A caller invokes init() directly (mongoDBAdapter.init does, without
\* awaiting it).
CallInit(p) ==
    /\ pc[p] = "idle"
    /\ call' = [call EXCEPT ![p] = SimpleCall("init")]
    /\ InitGuard(p)
    /\ UNCHANGED <<adapterFields, storeVars, now, levenshteinMatrix, local, probeCount>>

\* The downgrade every failure branch of initializeVectorSearch performs.
Downgrade(p) ==
    /\ isVectorSearchIndexComputable' = FALSE
    /\ hasVectorSearch' = FALSE
    /\ local' = [local EXCEPT ![p].detect = "failed"]
    /\ pc' = [pc EXCEPT ![p] = "init_standardIndexes"]

\* db.connect(), initializeCollections() (failures swallowed) and
\* initializeStandardIndexes(): none reads or writes an adapter field, so
\* the three awaits are one step.  A failure reaches init's catch.
InitConnect(p) ==
    /\ pc[p] = "init_connect"
    /\ \E ok \in BOOLEAN :
         IF ok
         THEN /\ pc' = [pc EXCEPT ![p] = "init_serverStatus"]
              /\ UNCHANGED <<adapterFields, result, cont>>
         ELSE /\ isConnected' = FALSE
              /\ isVectorSearchIndexComputable' = FALSE
              /\ UNCHANGED hasVectorSearch
              /\ Finish(p, Thrown("connect"))
    /\ UNCHANGED <<storeVars, now, levenshteinMatrix, call, local, probeCount>>

\* initializeVectorSearch: await admin().serverStatus(), then the test of
\* vectorSearchSupported && isVectorSearchIndexComputable.
InitServerStatus(p) ==
    /\ pc[p] = "init_serverStatus"
    /\ probeCount' = IF probeCount < MaxProbes THEN probeCount + 1 ELSE probeCount
    /\ \E status \in {"supported", "unsupported", "error"} :
         IF status = "supported" /\ isVectorSearchIndexComputable
         THEN /\ pc' = [pc EXCEPT ![p] = "init_createVectorIndex"]
              /\ UNCHANGED <<adapterFields, local>>
         ELSE /\ Downgrade(p)
              /\ UNCHANGED isConnected
    /\ UNCHANGED <<storeVars, now, levenshteinMatrix, call, cont, result>>

\* createIndex({embedding: "vectorSearch"}) on memories and knowledge.
InitCreateVectorIndex(p) ==
    /\ pc[p] = "init_createVectorIndex"
    /\ \E ok \in BOOLEAN :
         IF ok
         THEN /\ hasVectorSearch' = TRUE
              /\ pc' = [pc EXCEPT ![p] = "init_topology"]
              /\ UNCHANGED <<isVectorSearchIndexComputable, local>>
         ELSE Downgrade(p)
    /\ UNCHANGED <<isConnected, storeVars, now, levenshteinMatrix, call, cont, result, probeCount>>

\* The sharding check: listDatabases and memories.stats().
InitTopology(p) ==
    /\ pc[p] = "init_topology"
    /\ \E topology \in {"unsharded", "sharded", "error"} :
         IF topology = "unsharded"
         THEN /\ local' = [local EXCEPT ![p].detect = "ok"]
              /\ pc' = [pc EXCEPT ![p] = "init_sharding"]
              /\ UNCHANGED <<hasVectorSearch, isVectorSearchIndexComputable>>
         ELSE Downgrade(p)
    /\ UNCHANGED <<isConnected, storeVars, now, levenshteinMatrix, call, cont, result, probeCount>>

\* createStandardEmbeddingIndexes: a failure is logged and swallowed.
createStandardEmbeddingIndexes(p) ==
    /\ pc[p] = "init_standardIndexes"
    /\ \E ok \in BOOLEAN :
         local' = [local EXCEPT ![p].stdIdx = IF ok THEN "ok" ELSE "failed"]
    /\ pc' = [pc EXCEPT ![p] = "init_sharding"]
    /\ UNCHANGED <<adapterFields, storeVars, now, levenshteinMatrix, call, cont, result, probeCount>>

\* enableSharding / shardCollection (failures swallowed), then
\* isConnected = true and init() returns to whoever awaited it.
InitSharding(p) ==
    /\ pc[p] = "init_sharding"
    /\ isConnected' = TRUE
    /\ IF cont[p] = "done"
       THEN Finish(p, Returned(<<>>))
       ELSE /\ pc' = [pc EXCEPT ![p] = cont[p]]
            /\ cont' = [cont EXCEPT ![p] = "none"]
            /\ UNCHANGED result
    /\ UNCHANGED <<hasVectorSearch, isVectorSearchIndexComputable, storeVars,
                   now, levenshteinMatrix, call, local, probeCount>>

\* close(): guard, then await db.close().
CallClose(p) ==
    /\ pc[p] = "idle"
    /\ call' = [call EXCEPT ![p] = SimpleCall("close")]
    /\ IF isConnected
       THEN /\ pc' = [pc EXCEPT ![p] = "close_wait"]
            /\ UNCHANGED <<cont, result>>
       ELSE Finish(p, Returned(<<>>))
    /\ UNCHANGED <<adapterFields, storeVars, now, levenshteinMatrix, local, probeCount>>

CloseDone(p) ==
    /\ pc[p] = "close_wait"
    /\ \E ok \in BOOLEAN :
         IF ok
         THEN /\ isConnected' = FALSE
              /\ probeCount' = 0
              /\ Finish(p, Returned(<<>>))
         ELSE /\ UNCHANGED <<isConnected, probeCount>>
              /\ Finish(p, Thrown("close"))
    /\ UNCHANGED <<hasVectorSearch, isVectorSearchIndexComputable, storeVars,
                   now, levenshteinMatrix, call, local>>

\* The caller takes the outcome; its slot is free for the next call.
Return(p) ==
    /\ pc[p] = "done"
    /\ pc' = [pc EXCEPT ![p] = "idle"]
    /\ call' = [call EXCEPT ![p] = NoCall]
    /\ local' = [local EXCEPT ![p] = NoLocal]
    /\ result' = [result EXCEPT ![p] = NoResult]
    /\ UNCHANGED <<adapterFields, storeVars, now, levenshteinMatrix, cont, probeCount>>

----------------------------------------------------------------------------
(* Sequences.                                                              *)

Range(s) == {s[i] : i \in DOMAIN s}

\* The sequences of at most n distinct elements of S.
DistinctSeqs(S, n) ==
    {s \in UNION {[1..k -> S] : k \in 0..n} :
        \A i, j \in DOMAIN s : i # j => s[i] # s[j]}

\* cursor.limit(n)
Limit(s, n) == IF Len(s) <= n THEN s ELSE SubSeq(s, 1, n)

----------------------------------------------------------------------------
(* Memory search.                                                          *)

\* The filter searchMemories builds: type and roomId always, unique and
\* agentId only when the parameter is truthy.
MemoryQuery(a) ==
    [type |-> a.tableName, roomId |-> a.roomId,
     unique |-> IF a.unique THEN "true" ELSE "any",
     agentId |-> IF a.agentId # NULL THEN a.agentId ELSE "any"]

\* A variant of the filter that leaves the room out.
MatchesQueryAnyRoom(q, doc) ==
    /\ doc.type = q.type
    /\ q.unique = "true" => doc.unique = TRUE
    /\ q.agentId # "any" => doc.agentId = q.agentId

MatchesQuery(q, doc) ==
    /\ doc.type = q.type
    /\ doc.roomId = q.roomId
    /\ q.unique = "true" => doc.unique = TRUE
    /\ q.agentId # "any" => doc.agentId = q.agentId

Dot(a, b) == a[1] * b[1] + a[2] * b[2]

\* Array.from(null) throws a TypeError.
CosineThrows(a, b) == a = NoEmbedding \/ b = NoEmbedding

\* dotProduct / (magnitudeA * magnitudeB); 0/0 is NaN.
cosineSimilarity(a, b) ==
    Rat(Dot(a, b), ISqrt(Dot(a, a)) * ISqrt(Dot(b, b)))

\* The map every memory search ends with: a string createdAt is parsed to a
\* number, a string content is parsed to an object; other values pass.
NormalizeMemory(m) ==
    [m EXCEPT !.createdAt = IF @ = "string" THEN "number" ELSE @,
              !.content = IF @ = "string" THEN "object" ELSE @]

NormalizeAll(s) == [i \in DOMAIN s |-> NormalizeMemory(s[i])]

\* The comparator (a, b) => b.similarity - a.similarity: positive when a
\* must come after b.  NaN counts as 0.
SimilarityAfter(a, b) == RGt(b.similarity, a.similarity)

RECURSIVE InsertBySimilarity(_, _)
InsertBySimilarity(sorted, x) ==
    IF sorted = <<>> THEN <<x>>
    ELSE IF SimilarityAfter(Head(sorted), x)
         THEN <<x>> \o sorted
         ELSE <<Head(sorted)>> \o InsertBySimilarity(Tail(sorted), x)

RECURSIVE SortBySimilarity(_)
\* Array.prototype.sort with that comparator (stable).
SortBySimilarity(s) ==
    IF s = <<>> THEN <<>>
    ELSE InsertBySimilarity(SortBySimilarity(SubSeq(s, 1, Len(s) - 1)), s[Len(s)])

\* What find(query).limit(limit || 10).toArray() returns.
FallbackFind(q, limit) ==
    Limit(SelectSeq(memories, LAMBDA d : MatchesQuery(q, d)),
          IF limit = 0 THEN 10 ELSE limit)

\* searchMemoriesFallback's processing of the rows it fetched.
FallbackRank(rows, embedding) ==
    NormalizeAll(SortBySimilarity(
        [i \in DOMAIN rows |->
            [rows[i] EXCEPT !.similarity = cosineSimilarity(embedding, rows[i].embedding)]]))

\* The rows a native $search stage may hand on: at most `limit` documents of
\* the collection, chosen and ordered by the store's index.
NativeRows(collection, limit) == DistinctSeqs(Range(collection), limit)

\* The native pipeline of searchMemories after its $search stage:
\* { $match: query }, then the normalising map.
NativeMemoryResult(rows, q) ==
    NormalizeAll(SelectSeq(rows, LAMBDA d : MatchesQuery(q, d)))

QueryEmbeddings == {<<3, 4>>, <<1, 0>>}

SearchMemoriesArgs ==
    {Args("searchMemories", t, r, a, e, Rat(95, 100), n, u, <<>>) :
        t \in {"messages"}, r \in Rooms, a \in {NULL, "a1"},
        e \in QueryEmbeddings, n \in 1..MaxMatchCount, u \in BOOLEAN}

\* The call runs to its first await, ensureConnection.  The parameters are
\* first read after it, and are drawn there.
CallSearchMemories(p) ==
    /\ pc[p] = "idle"
    /\ call' = [call EXCEPT ![p] = SimpleCall("searchMemories")]
    /\ EnsureConnection(p, "sm_start")
    /\ UNCHANGED <<adapterFields, storeVars, now, levenshteinMatrix, local, result, probeCount>>

\* The call of searchMemoriesFallback: its own ensureConnection, then find.
EnterMemoriesFallback(p, path) ==
    /\ local' = [local EXCEPT ![p].path = path]
    /\ EnsureConnection(p, "smf_find")
    /\ UNCHANGED result

\* After ensureConnection: the query is built and the flag decides the path.
SearchMemoriesStart(p, argSet) ==
    /\ pc[p] = "sm_start"
    /\ \E a \in argSet : call' = [call EXCEPT ![p] = a]
    /\ IF hasVectorSearch
       THEN /\ local' = [local EXCEPT ![p].path = "native", ![p].native = Capability]
            /\ pc' = [pc EXCEPT ![p] = "sm_native"]
            /\ UNCHANGED <<cont, result>>
       ELSE EnterMemoriesFallback(p, "fallback")
    /\ UNCHANGED <<adapterFields, storeVars, now, levenshteinMatrix, probeCount>>

\* A variant of the catch block that also clears the capability flag.
MemoriesNativeFailedDowngrades(p) ==
    /\ EnterMemoriesFallback(p, "fallbackAfterNative")
    /\ hasVectorSearch' = FALSE
    /\ UNCHANGED <<isConnected, isVectorSearchIndexComputable>>

\* The catch block around the native aggregate of searchMemories.
MemoriesNativeFailed(p) ==
    /\ EnterMemoriesFallback(p, "fallbackAfterNative")
    /\ UNCHANGED adapterFields

\* The native aggregate resolves or throws.
SearchMemoriesNative(p) ==
    /\ pc[p] = "sm_native"
    /\ \/ \E rows \in NativeRows(memories, call[p].match_count) :
            /\ UNCHANGED <<local, adapterFields>>
            /\ Finish(p, Returned(NativeMemoryResult(rows, MemoryQuery(call[p]))))
       \/ MemoriesNativeFailed(p)
    /\ UNCHANGED <<storeVars, now, levenshteinMatrix, call, probeCount>>

\* A variant in which a failed find is swallowed and no rows are returned.
MemoriesFallbackSwallowed(p) ==
    /\ local' = [local EXCEPT ![p].fallback = "failed"]
    /\ Finish(p, Returned(<<>>))

\* The find of searchMemoriesFallback threw: nothing catches it, neither
\* here nor in searchMemories.
MemoriesFallbackFailed(p) ==
    /\ local' = [local EXCEPT ![p].fallback = "failed"]
    /\ Finish(p, Thrown("fallback"))

\* The find of searchMemoriesFallback resolves or throws.  The ranking of
\* the fetched rows throws when one of them has no embedding.
SearchMemoriesFallbackFind(p) ==
    /\ pc[p] = "smf_find"
    /\ \/ LET rows == FallbackFind(MemoryQuery(call[p]), call[p].match_count)
          IN  /\ local' = [local EXCEPT ![p].raw = rows, ![p].fallback = "ok"]
              /\ IF \E i \in DOMAIN rows :
                        CosineThrows(call[p].embedding, rows[i].embedding)
                 THEN Finish(p, Thrown("similarity"))
                 ELSE Finish(p, Returned(FallbackRank(rows, call[p].embedding)))
       \/ MemoriesFallbackFailed(p)
    /\ UNCHANGED <<adapterFields, storeVars, now, levenshteinMatrix, call, probeCount>>

SearchByEmbeddingArgs ==
    {Args("searchMemoriesByEmbedding", t, r, a, e, Rat(95, 100), n, u, <<>>) :
        t \in {"messages"}, r \in {NULL, "r1"}, a \in {"a1"}, e \in {<<3, 4>>},
        n \in 1..MaxMatchCount, u \in BOOLEAN}

\* The $match of searchMemoriesByEmbedding: type and agentId always, unique
\* and roomId only when given.
MatchesByEmbedding(a, doc) ==
    /\ doc.type = a.tableName
    /\ doc.agentId = a.agentId
    /\ a.unique => doc.unique = TRUE
    /\ a.roomId # NULL => doc.roomId = a.roomId

CallSearchMemoriesByEmbedding(p) ==
    /\ pc[p] = "idle"
    /\ call' = [call EXCEPT ![p] = SimpleCall("searchMemoriesByEmbedding")]
    /\ EnsureConnection(p, "sme_start")
    /\ UNCHANGED <<adapterFields, storeVars, now, levenshteinMatrix, local, result, probeCount>>

\* After ensureConnection the $search pipeline is issued, whatever the flag.
SearchMemoriesByEmbeddingStart(p) ==
    /\ pc[p] = "sme_start"
    /\ \E a \in SearchByEmbeddingArgs : call' = [call EXCEPT ![p] = a]
    /\ local' = [local EXCEPT ![p].path = "native", ![p].native = Capability]
    /\ pc' = [pc EXCEPT ![p] = "sme_native"]
    /\ UNCHANGED <<adapterFields, storeVars, now, levenshteinMatrix, cont, result, probeCount>>

SearchMemoriesByEmbeddingNative(p) ==
    /\ pc[p] = "sme_native"
    /\ \/ \E rows \in NativeRows(memories, call[p].match_count) :
            /\ UNCHANGED local
            /\ Finish(p, Returned(NormalizeAll(
                   SelectSeq(rows, LAMBDA d : MatchesByEmbedding(call[p], d)))))
       \/ /\ Finish(p, Thrown("native"))
          /\ UNCHANGED local
    /\ UNCHANGED <<adapterFields, storeVars, now, levenshteinMatrix, call, probeCount>>

----------------------------------------------------------------------------
(* Memory writes.                                                          *)

\* The ids v4() gives the memories that are created.
NewIdSeq == <<"n1", "n2", "n3">>
NewIds == {NewIdSeq[i] : i \in 1..MaxCreated}
UsedIds == {memories[i].id : i \in DOMAIN memories}
NewId == NewIdSeq[CHOOSE i \in 1..MaxCreated :
                      /\ NewIdSeq[i] \notin UsedIds
                      /\ \A j \in 1..(i - 1) : NewIdSeq[j] \in UsedIds]

\* The memories createMemory is called with, as the parameters of the
\* dedup search it makes: match_threshold 0.95, match_count 1, unique true.
CreateMemoryArgs ==
    {Args("createMemory", "messages", r, a, e, Rat(95, 100), 1, TRUE, <<>>) :
        r \in Rooms, a \in {"a1", "a2"}, e \in {<<3, 4>>, <<1, 0>>, NoEmbedding}}
    \cup {Args("createMemory", "messages", "r1", "a1", ZeroEmbedding,
                Rat(95, 100), 1, TRUE, <<>>)}

\* createMemory runs to its first await, ensureConnection, which is
\* outside its try block.
CallCreateMemory(p) ==
    /\ pc[p] = "idle"
    /\ NewIds \ UsedIds # {}
    /\ call' = [call EXCEPT ![p] = SimpleCall("createMemory")]
    /\ EnsureConnection(p, "cm_start")
    /\ UNCHANGED <<adapterFields, storeVars, now, levenshteinMatrix, local, result, probeCount>>

\* A variant that makes the dedup search for every memory.
CreateMemoryStartAlwaysSearches(p, argSet) ==
    /\ pc[p] = "cm_start"
    /\ \E a \in argSet :
         /\ call' = [call EXCEPT ![p] = a]
         /\ EnsureConnection(p, "sm_start")
    /\ local' = [local EXCEPT ![p].outer = "createMemory"]
    /\ UNCHANGED <<adapterFields, storeVars, now, levenshteinMatrix, result, probeCount>>

\* Inside the try block: with an embedding, searchMemories is called (its
\* first await is its own ensureConnection); without one the insert is
\* issued at once.
CreateMemoryStart(p, argSet) ==
    /\ pc[p] = "cm_start"
    /\ \E a \in argSet :
         /\ call' = [call EXCEPT ![p] = a]
         /\ IF a.embedding = NoEmbedding
            THEN /\ pc' = [pc EXCEPT ![p] = "cm_insert"]
                 /\ UNCHANGED cont
            ELSE EnsureConnection(p, "sm_start")
    /\ local' = [local EXCEPT ![p].outer = "createMemory"]
    /\ UNCHANGED <<adapterFields, storeVars, now, levenshteinMatrix, result, probeCount>>

\* isUnique: true when no search was made, else similarMemories.length === 0.
IsUnique(p) == local[p].path = "none" \/ Len(result[p].value) = 0

\* A variant that, on inserting a duplicate, also clears the flag of the
\* records it duplicates.
CreateMemoryInsertRevises(p) ==
    /\ pc[p] = "cm_insert"
    /\ memories' = Append(
           [i \in DOMAIN memories |->
               [memories[i] EXCEPT !.unique =
                   IF memories[i].embedding = call[p].embedding THEN FALSE ELSE @]],
           Memory(NewId, call[p].tableName, call[p].roomId, call[p].agentId,
                  IsUnique(p), call[p].embedding, "Date", "object"))
    /\ local' = [local EXCEPT ![p].inserted = NewId]
    /\ result' = [result EXCEPT ![p] = Returned(<<>>)]
    /\ pc' = [pc EXCEPT ![p] = "done"]
    /\ UNCHANGED <<adapterFields, knowledge, cache, now, levenshteinMatrix, call, cont, probeCount>>

\* insertOne resolves or throws; the catch block logs the error and
\* createMemory returns.
CreateMemoryInsert(p) ==
    /\ pc[p] = "cm_insert"
    /\ \E ok \in BOOLEAN :
         IF ok
         THEN /\ memories' = Append(memories,
                     Memory(NewId, call[p].tableName, call[p].roomId, call[p].agentId,
                            IsUnique(p), call[p].embedding, "Date", "object"))
              /\ local' = [local EXCEPT ![p].inserted = NewId]
              /\ result' = [result EXCEPT ![p] = Returned(<<>>)]
         ELSE /\ UNCHANGED <<memories, local>>
              /\ result' = [result EXCEPT ![p] = Swallowed("insert")]
    /\ pc' = [pc EXCEPT ![p] = "done"]
    /\ UNCHANGED <<adapterFields, knowledge, cache, now, levenshteinMatrix, call, cont, probeCount>>

\* The ids removeMemory is called with.
RemoveIds == {"m1", "n1"}

RECURSIVE DeleteOne(_, _, _)
\* deleteOne({id, type}): the first matching document goes.
DeleteOne(s, id, type) ==
    IF s = <<>> THEN <<>>
    ELSE IF Head(s).id = id /\ Head(s).type = type THEN Tail(s)
    ELSE <<Head(s)>> \o DeleteOne(Tail(s), id, type)

CallRemoveMemory(p) ==
    /\ pc[p] = "idle"
    /\ call' = [call EXCEPT ![p] = SimpleCall("removeMemory")]
    /\ EnsureConnection(p, "rm_delete")
    /\ UNCHANGED <<adapterFields, storeVars, now, levenshteinMatrix, local, result, probeCount>>

RemoveMemoryDelete(p) ==
    /\ pc[p] = "rm_delete"
    /\ \E id \in RemoveIds, ok \in BOOLEAN :
         IF ok
         THEN /\ memories' = DeleteOne(memories, id, "messages")
              /\ Finish(p, Returned(<<>>))
         ELSE /\ UNCHANGED memories
              /\ Finish(p, Thrown("delete"))
    /\ UNCHANGED <<adapterFields, knowledge, cache, now, levenshteinMatrix, call, local, probeCount>>

----------------------------------------------------------------------------
(* The result cache.                                                       *)

\* 24 * 60 * 60 * 1000 ms, the expiry setCache writes.
CacheTtl == 86400000

\* `embedding_${agentId}_${searchText}`
\* A variant of the key that also names the query embedding.
CacheKeyWithEmbedding(a) == <<"embedding", a.agentId, a.searchText, a.embedding>>

CacheKey(a) == <<"embedding", a.agentId, a.searchText>>

\* A variant of the filter without the expiresAt condition.
LiveEntriesIgnoringExpiry(key, agentId) ==
    {e \in cache : e.key = key /\ e.agentId = agentId}

\* findOne({key, agentId, expiresAt: {$gt: new Date()}})
LiveEntries(key, agentId) ==
    {e \in cache : e.key = key /\ e.agentId = agentId /\ e.expiresAt > now}

\* updateOne({key, agentId}, {$set: {value, createdAt, expiresAt}}, {upsert: true})
CacheUpsert(key, agentId, value) ==
    {e \in cache : ~(e.key = key /\ e.agentId = agentId)}
        \cup {[key |-> key, agentId |-> agentId, value |-> value,
               createdAt |-> now, expiresAt |-> now + CacheTtl]}

----------------------------------------------------------------------------
(* Knowledge search.                                                       *)

\* A document of "knowledge".  content is "object" or "string" (the JSON
\* text createKnowledge stores); text, isChunk and isMain are content.text,
\* content.metadata.isChunk and content.metadata.isMain.
KnowledgeDocument(id, agentId, isShared, embedding, content, text, isChunk, isMain, createdAt) ==
    [id |-> id, agentId |-> agentId, isShared |-> isShared,
     embedding |-> embedding, content |-> content, text |-> text,
     isChunk |-> isChunk, isMain |-> isMain, createdAt |-> createdAt]

SeedKnowledge ==
    << KnowledgeDocument("k1", "a1", FALSE, <<3, 4>>, "object", <<"a", "b">>, FALSE, FALSE, "number"),
       KnowledgeDocument("k2", "a2", FALSE, <<4, 3>>, "string", <<"A">>, TRUE, FALSE, "string"),
       KnowledgeDocument("k3", NULL, TRUE, <<1, 0>>, "string", <<"a">>, FALSE, TRUE, "number") >>

\* $toLower / String.prototype.toLowerCase on the characters that occur.
ToLowerChar(c) == IF c = "A" THEN "a" ELSE IF c = "B" THEN "b" ELSE c
ToLower(t) == [i \in DOMAIN t |-> ToLowerChar(t[i])]

\* $regexMatch of a pattern of literal characters: it occurs in the input.
RegexMatch(input, pattern) ==
    \E i \in 0..(Len(input) - Len(pattern)) :
        \A j \in 1..Len(pattern) : input[i + j] = pattern[j]

\* "$content.text": missing when content is stored as a string; $toLower
\* of a missing value is "".
ContentText(d) == IF d.content = "object" THEN d.text ELSE <<>>

\* The expression calculateKeywordScore(searchText) builds, evaluated on d.
calculateKeywordScore(searchText, d) ==
    RMul(IF searchText # <<>> /\ RegexMatch(ToLower(ContentText(d)), ToLower(searchText))
            THEN Rat(3, 1) ELSE Rat(1, 1),
         IF d.content = "object" /\ d.isChunk THEN Rat(3, 2)
         ELSE IF d.content = "object" /\ d.isMain THEN Rat(6, 5)
         ELSE Rat(1, 1))

\* The $cond of the pipeline's first stage when hasVectorSearch was false as
\* the pipeline was built: 0 without an embedding, else 1 / (1 + cosine).
CosineVectorScore(embedding, d) ==
    IF d.embedding = NoEmbedding THEN Rat(0, 1)
    ELSE LET c == RAdd(Rat(1, 1), cosineSimilarity(embedding, d.embedding))
         IN  IF IsNaN(c) THEN NaN ELSE Rat(c[2], c[1])

\* $divide raises on a zero divisor and the aggregate fails.
DividesByZero(embedding, d) ==
    /\ d.embedding # NoEmbedding
    /\ RAdd(Rat(1, 1), cosineSimilarity(embedding, d.embedding)) = Rat(0, 1)

\* A pipeline row: the document and the score its $search stage attached
\* (NaN: no $search stage ran, { $meta: "vectorSearchScore" } is missing).
Row(d, meta) == [doc |-> d, meta |-> meta]

\* The two $addFields stages.  scoreFrom is "meta" when hasVectorSearch was
\* true as getKnowledgeSearchPipeline ran, else "cosine".
Scored(row, scoreFrom, a) ==
    LET vs == IF scoreFrom = "meta" THEN row.meta
              ELSE CosineVectorScore(a.embedding, row.doc)
        ks == calculateKeywordScore(a.searchText, row.doc)
    IN  [doc |-> row.doc, vectorScore |-> vs, keywordScore |-> ks,
         combinedScore |-> RMul(vs, ks)]

\* A variant of the $match stage without the keyword rule.
AcceptedByThresholdOnly(r, threshold) ==
    RGeq(r.vectorScore, threshold)

\* The $match stage of getKnowledgeSearchPipeline.
Accepted(r, threshold) ==
    \/ RGeq(r.vectorScore, threshold)
    \/ RGt(r.keywordScore, Rat(1, 1)) /\ RGeq(r.vectorScore, Rat(3, 10))

\* A variant of the $sort stage that leaves the rows in any order.
UnsortedByCombined(rows) ==
    {s \in DistinctSeqs(Range(rows), Len(rows)) : Len(s) = Len(rows)}

\* { $sort: { combinedScore: -1 } }: any order of the rows in which no row
\* precedes one of a greater combinedScore.
SortedByCombined(rows) ==
    {s \in DistinctSeqs(Range(rows), Len(rows)) :
        /\ Len(s) = Len(rows)
        /\ \A i, j \in DOMAIN s :
              i < j => ~RLt(s[i].combinedScore, s[j].combinedScore)}

\* The rows after the two $addFields stages.
ScoredRows(rows, scoreFrom, a) == [i \in DOMAIN rows |-> Scored(rows[i], scoreFrom, a)]

\* The outputs getKnowledgeSearchPipeline's stages can give on `rows`.
getKnowledgeSearchPipeline(rows, scoreFrom, a) ==
    SortedByCombined(
        SelectSeq(ScoredRows(rows, scoreFrom, a),
                  LAMBDA r : Accepted(r, a.match_threshold)))

\* The $match of fallbackSearchKnowledge:
\* { $or: [{ agentId }, { isShared: true, agentId: null }] }
OwnedOrShared(agentId, d) ==
    \/ d.agentId = agentId
    \/ d.isShared /\ d.agentId = NULL

FallbackKnowledgeRows(a) ==
    LET docs == SelectSeq(knowledge, LAMBDA d : OwnedOrShared(a.agentId, d))
    IN  [i \in DOMAIN docs |-> Row(docs[i], NaN)]

\* The scores a vector index may attach to a row.
NativeScores == {Rat(1, 5), Rat(2, 5), Rat(24, 25)}

\* What vectorSearchKnowledge's $search stage may hand on: at most
\* 2 * match_count documents of the whole collection, each with a score.
NativeKnowledgeRows(a) ==
    UNION {{[i \in DOMAIN docs |-> Row(docs[i], sc[i])] :
                sc \in [DOMAIN docs -> NativeScores]} :
           docs \in NativeRows(knowledge, 2 * a.match_count)}

\* The map searchKnowledge applies to each row.  embedding is the kind of
\* value returned; similarity is combinedScore || 0.
MapKnowledge(r) ==
    [id |-> r.doc.id, agentId |-> r.doc.agentId, isShared |-> r.doc.isShared,
     content |-> "object",
     embedding |-> IF r.doc.embedding = NoEmbedding THEN "undefined" ELSE "Float32Array",
     createdAt |-> IF r.doc.createdAt = "string" THEN "number" ELSE r.doc.createdAt,
     similarity |-> IF IsNaN(r.combinedScore) THEN Rat(0, 1) ELSE r.combinedScore]

MapAllKnowledge(rows) == [i \in DOMAIN rows |-> MapKnowledge(rows[i])]

\* JSON.parse(JSON.stringify(items)): a Float32Array comes back as an object
\* keyed by index, a Date as a string, an undefined field is dropped.
JsonRoundTrip(items) ==
    [i \in DOMAIN items |->
        [items[i] EXCEPT !.embedding = IF @ = "Float32Array" THEN "object" ELSE @,
                         !.createdAt = IF @ = "Date" THEN "string" ELSE @]]

CallSearchKnowledge(p) ==
    /\ pc[p] = "idle"
    /\ call' = [call EXCEPT ![p] = SimpleCall("searchKnowledge")]
    /\ EnsureConnection(p, "sk_start")
    /\ UNCHANGED <<adapterFields, storeVars, now, levenshteinMatrix, local, result, probeCount>>

\* After ensureConnection: getCache is called and runs its own
\* ensureConnection.
SearchKnowledgeStart(p, argSet) ==
    /\ pc[p] = "sk_start"
    /\ \E a \in argSet : call' = [call EXCEPT ![p] = a]
    /\ EnsureConnection(p, "sk_getCache")
    /\ UNCHANGED <<adapterFields, storeVars, now, levenshteinMatrix, local, result, probeCount>>

\* fallbackSearchKnowledge is called: the pipeline is built, reading
\* hasVectorSearch, and the aggregate is issued.
EnterKnowledgeFallback(p, path) ==
    /\ local' = [local EXCEPT ![p].path = path,
                              ![p].scoreFrom = IF hasVectorSearch THEN "meta" ELSE "cosine"]
    /\ pc' = [pc EXCEPT ![p] = "sk_fallback"]
    /\ UNCHANGED <<cont, result>>

\* A variant that never reads the cache.
SearchKnowledgeGetCacheAlwaysMiss(p) ==
    /\ pc[p] = "sk_getCache"
    /\ IF hasVectorSearch
       THEN /\ local' = [local EXCEPT ![p].path = "native",
                                      ![p].native = Capability,
                                      ![p].scoreFrom = "meta"]
            /\ pc' = [pc EXCEPT ![p] = "sk_native"]
            /\ UNCHANGED <<cont, result>>
       ELSE EnterKnowledgeFallback(p, "fallback")
    /\ UNCHANGED <<adapterFields, storeVars, now, levenshteinMatrix, call, probeCount>>

\* getCache's findOne resolves or throws.  On a hit the parsed value is
\* returned; on a miss the flag decides the path.
SearchKnowledgeGetCache(p) ==
    /\ pc[p] = "sk_getCache"
    /\ \/ \E e \in LiveEntries(CacheKey(call[p]), call[p].agentId) :
            /\ local' = [local EXCEPT ![p].path = "cache"]
            /\ Finish(p, Returned(e.value))
       \/ /\ LiveEntries(CacheKey(call[p]), call[p].agentId) = {}
          /\ IF hasVectorSearch
             THEN /\ local' = [local EXCEPT ![p].path = "native",
                                            ![p].native = Capability,
                                            ![p].scoreFrom = "meta"]
                  /\ pc' = [pc EXCEPT ![p] = "sk_native"]
                  /\ UNCHANGED <<cont, result>>
             ELSE EnterKnowledgeFallback(p, "fallback")
       \/ /\ Finish(p, Thrown("cache"))
          /\ UNCHANGED local
    /\ UNCHANGED <<adapterFields, storeVars, now, levenshteinMatrix, call, probeCount>>

\* The catch block around vectorSearchKnowledge.
KnowledgeNativeFailed(p) ==
    /\ EnterKnowledgeFallback(p, "fallbackAfterNative")
    /\ UNCHANGED adapterFields

\* The rows are mapped and setCache is called: its ensureConnection.
EnterSetCache(p, cand, rows) ==
    /\ local' = [local EXCEPT ![p].raw = rows, ![p].cand = cand]
    /\ EnsureConnection(p, "sk_setCache")
    /\ UNCHANGED result

\* vectorSearchKnowledge's aggregate resolves or throws.
SearchKnowledgeNative(p) ==
    /\ pc[p] = "sk_native"
    /\ \/ \E rows \in NativeKnowledgeRows(call[p]) :
          \E out \in getKnowledgeSearchPipeline(rows, local[p].scoreFrom, call[p]) :
            /\ EnterSetCache(p, ScoredRows(rows, local[p].scoreFrom, call[p]), out)
            /\ UNCHANGED adapterFields
       \/ KnowledgeNativeFailed(p)
    /\ UNCHANGED <<storeVars, now, levenshteinMatrix, call, probeCount>>

\* fallbackSearchKnowledge's aggregate threw: the outer catch of
\* searchKnowledge logs and rethrows.
KnowledgeFallbackFailed(p) ==
    /\ local' = [local EXCEPT ![p].fallback = "failed"]
    /\ Finish(p, Thrown("fallback"))

\* fallbackSearchKnowledge's aggregate resolves or throws.
SearchKnowledgeFallback(p) ==
    /\ pc[p] = "sk_fallback"
    /\ \/ /\ local[p].scoreFrom = "cosine" =>
                \A i \in DOMAIN knowledge :
                    OwnedOrShared(call[p].agentId, knowledge[i]) =>
                        ~DividesByZero(call[p].embedding, knowledge[i])
          /\ \E out \in getKnowledgeSearchPipeline(FallbackKnowledgeRows(call[p]),
                                                   local[p].scoreFrom, call[p]) :
               /\ local' = [local EXCEPT
                      ![p].raw = out, ![p].fallback = "ok",
                      ![p].cand = ScoredRows(FallbackKnowledgeRows(call[p]),
                                             local[p].scoreFrom, call[p])]
               /\ EnsureConnection(p, "sk_setCache")
               /\ UNCHANGED result
       \/ KnowledgeFallbackFailed(p)
    /\ UNCHANGED <<adapterFields, storeVars, now, levenshteinMatrix, call, probeCount>>

\* setCache's updateOne resolves or throws (swallowed, setCache returns
\* false); searchKnowledge returns the mapped results.
SearchKnowledgeSetCache(p) ==
    /\ pc[p] = "sk_setCache"
    /\ LET mappedResults == MapAllKnowledge(local[p].raw)
       IN  /\ \/ cache' = CacheUpsert(CacheKey(call[p]), call[p].agentId,
                                      JsonRoundTrip(mappedResults))
              \/ UNCHANGED cache
           /\ Finish(p, Returned(mappedResults))
    /\ UNCHANGED <<adapterFields, memories, knowledge, now, levenshteinMatrix, call, local, probeCount>>

----------------------------------------------------------------------------
(* Knowledge writes.                                                       *)

\* A knowledge item as createKnowledge receives it.
KnowledgeItem(id, agentId, isShared, embedding, text) ==
    [Args("createKnowledge", NULL, NULL, agentId, embedding, NaN, 0, FALSE, text)
        EXCEPT !.id = id, !.isShared = isShared]

\* The items createKnowledge is called with: a stored id, shared or not,
\* and a new id.
KnowledgeItems ==
    {KnowledgeItem("k1", "a1", FALSE, <<0, 1>>, <<"a">>),
     KnowledgeItem("k1", "a1", TRUE, <<0, 1>>, <<"a">>),
     KnowledgeItem("k4", "a1", FALSE, <<4, -3>>, <<"b">>)}

\* The ids removeKnowledge is called with.
RemoveKnowledgeIds == {"k1"}

KnowledgeIds == {knowledge[i].id : i \in DOMAIN knowledge}

\* The document createKnowledge builds: content is the JSON text of
\* knowledge.content, createdAt is knowledge.createdAt || Date.now().
KnowledgeDoc(a) ==
    KnowledgeDocument(a.id, a.agentId, a.isShared, a.embedding, "string",
                      a.searchText, FALSE, FALSE, "number")

\* createKnowledge runs to its first await, ensureConnection, which is
\* outside its try block.
CallCreateKnowledge(p) ==
    /\ pc[p] = "idle"
    /\ call' = [call EXCEPT ![p] = SimpleCall("createKnowledge")]
    /\ EnsureConnection(p, "ck_upsert")
    /\ UNCHANGED <<adapterFields, storeVars, now, levenshteinMatrix, local, result, probeCount>>

\* A variant whose catch block treats every duplicate-key error as a no-op.
CreateKnowledgeDuplicateIgnored(p, a) ==
    Finish(p, Swallowed("duplicate"))

\* The catch block on a duplicate-key error (code 11000): a no-op for a
\* shared item, rethrown otherwise.
CreateKnowledgeDuplicate(p, a) ==
    IF a.isShared
    THEN Finish(p, Swallowed("duplicate"))
    ELSE Finish(p, Thrown("duplicate"))

\* updateOne({id}, {$setOnInsert: doc}, {upsert: true}) resolves (inserting
\* only when the id is absent), reports a duplicate key (the id is stored:
\* a racing writer inserted it), or fails otherwise (rethrown).
CreateKnowledgeUpsert(p, itemSet) ==
    /\ pc[p] = "ck_upsert"
    /\ \E a \in itemSet :
         /\ call' = [call EXCEPT ![p] = a]
         /\ \/ /\ a.id \in KnowledgeIds
               /\ UNCHANGED <<knowledge, local>>
               /\ Finish(p, Returned(<<>>))
            \/ /\ a.id \notin KnowledgeIds
               /\ knowledge' = Append(knowledge, KnowledgeDoc(a))
               /\ local' = [local EXCEPT ![p].inserted = a.id]
               /\ Finish(p, Returned(<<>>))
            \/ /\ a.id \in KnowledgeIds
               /\ UNCHANGED <<knowledge, local>>
               /\ CreateKnowledgeDuplicate(p, a)
            \/ /\ UNCHANGED <<knowledge, local>>
               /\ Finish(p, Thrown("upsert"))
    /\ UNCHANGED <<adapterFields, memories, cache, now, levenshteinMatrix, probeCount>>

CallRemoveKnowledge(p) ==
    /\ pc[p] = "idle"
    /\ call' = [call EXCEPT ![p] = SimpleCall("removeKnowledge")]
    /\ EnsureConnection(p, "rk_delete")
    /\ UNCHANGED <<adapterFields, storeVars, now, levenshteinMatrix, local, result, probeCount>>

\* A variant that also drops the cached search results.
RemoveKnowledgeDeleteInvalidates(p) ==
    /\ pc[p] = "rk_delete"
    /\ \E id \in RemoveKnowledgeIds :
         /\ call' = [call EXCEPT ![p].id = id]
         /\ knowledge' = SelectSeq(knowledge, LAMBDA d : d.id # id)
         /\ cache' = {}
         /\ Finish(p, Returned(<<>>))
    /\ UNCHANGED <<adapterFields, memories, now, levenshteinMatrix, local, probeCount>>

\* deleteOne({id}) on "knowledge" (id is unique there) resolves or throws.
RemoveKnowledgeDelete(p) ==
    /\ pc[p] = "rk_delete"
    /\ \E id \in RemoveKnowledgeIds :
         /\ call' = [call EXCEPT ![p].id = id]
         /\ \/ /\ knowledge' = SelectSeq(knowledge, LAMBDA d : d.id # id)
               /\ Finish(p, Returned(<<>>))
            \/ /\ UNCHANGED knowledge
               /\ Finish(p, Thrown("delete"))
    /\ UNCHANGED <<adapterFields, memories, cache, now, levenshteinMatrix, local, probeCount>>

CallClearKnowledge(p) ==
    /\ pc[p] = "idle"
    /\ call' = [call EXCEPT ![p] = SimpleCall("clearKnowledge")]
    /\ EnsureConnection(p, "clk_delete")
    /\ UNCHANGED <<adapterFields, storeVars, now, levenshteinMatrix, local, result, probeCount>>

\* deleteMany(shared ? {$or: [{agentId}, {isShared: true}]} : {agentId})
\* resolves or throws (logged and rethrown).
ClearKnowledgeDelete(p) ==
    /\ pc[p] = "clk_delete"
    /\ \E agentId \in {"a1"}, shared \in {TRUE} :
         /\ call' = [call EXCEPT ![p].agentId = agentId, ![p].isShared = shared]
         /\ \/ /\ knowledge' = SelectSeq(knowledge,
                      LAMBDA d : ~(d.agentId = agentId \/ (shared /\ d.isShared)))
               /\ Finish(p, Returned(<<>>))
            \/ /\ UNCHANGED knowledge
               /\ Finish(p, Thrown("delete"))
    /\ UNCHANGED <<adapterFields, memories, cache, now, levenshteinMatrix, local, probeCount>>

----------------------------------------------------------------------------
(* Edit distance and getCachedEmbeddings.                                  *)

Min3(a, b, c) == IF a <= b /\ a <= c THEN a ELSE IF b <= c THEN b ELSE c

\* A variant of getLevenshteinMatrix that looks at the row count only.
getLevenshteinMatrixRowsOnly(M, rows, cols) ==
    IF Len(M) < rows
    THEN [i \in 1..rows |-> [j \in 1..cols |-> 0]]
    ELSE M

\* getLevenshteinMatrix(rows, cols) on the matrix M: a matrix too small in
\* rows, or whose first row is too short, is replaced by a new one of
\* exactly rows x cols zeros; otherwise M is handed out as it is.
getLevenshteinMatrix(M, rows, cols) ==
    IF \/ Len(M) < rows
       \/ Len(M) > 0 /\ Len(M[1]) < cols
       \/ Len(M) = 0 /\ cols > 0
    THEN [i \in 1..rows |-> [j \in 1..cols |-> 0]]
    ELSE M

RECURSIVE FillMatrixKeepingWritten(_, _, _, _, _)
\* A variant of the double loop that leaves a cell alone once it holds a
\* value other than 0.
FillMatrixKeepingWritten(m, str1, str2, i, j) ==
    IF i > Len(str1) THEN m
    ELSE IF j > Len(str2) THEN FillMatrixKeepingWritten(m, str1, str2, i + 1, 1)
    ELSE LET v == IF m[i + 1][j + 1] # 0 THEN m[i + 1][j + 1]
                  ELSE IF str1[i] = str2[j] THEN m[i][j]
                  ELSE Min3(m[i][j] + 1, m[i + 1][j] + 1, m[i][j + 1] + 1)
         IN  FillMatrixKeepingWritten([m EXCEPT ![i + 1][j + 1] = v], str1, str2, i, j + 1)

RECURSIVE FillMatrix(_, _, _, _, _)
\* The double loop "Calculate minimum edit distance" from cell (i, j) on,
\* row by row.  The cell the code calls matrix[i][j] is m[i + 1][j + 1].
FillMatrix(m, str1, str2, i, j) ==
    IF i > Len(str1) THEN m
    ELSE IF j > Len(str2) THEN FillMatrix(m, str1, str2, i + 1, 1)
    ELSE LET v == IF str1[i] = str2[j] THEN m[i][j]
                  ELSE Min3(m[i][j] + 1, m[i + 1][j] + 1, m[i][j + 1] + 1)
         IN  FillMatrix([m EXCEPT ![i + 1][j + 1] = v], str1, str2, i, j + 1)

\* What a distance computation gives: its value, the matrix field after
\* it, and whether it threw.
Distance(value, matrix, threw) == [value |-> value, matrix |-> matrix, threw |-> threw]

\* The computation on the acquired matrix m0: the defensive checks, the
\* initialisation of column 0 and row 0, and the double loop.
LevenshteinOnMatrix(m0, s1, s2) ==
    IF Len(m0) < Len(s1) + 1 \/ Len(m0[1]) < Len(s2) + 1
    THEN Distance(0, m0, TRUE)
    ELSE LET m1 == [i \in DOMAIN m0 |->
                       IF i <= Len(s1) + 1 THEN [m0[i] EXCEPT ![1] = i - 1] ELSE m0[i]]
             m2 == [m1 EXCEPT ![1] =
                       [j \in DOMAIN m1[1] |-> IF j <= Len(s2) + 1 THEN j - 1 ELSE m1[1][j]]]
             m3 == FillMatrix(m2, s1, s2, 1, 1)
         IN  Distance(m3[Len(s1) + 1][Len(s2) + 1], m3, FALSE)

\* A variant of the distance whose early return for an empty second
\* string gives 0.
calculateLevenshteinDistanceEmptyIsZero(M, str1, str2) ==
    IF str1 = str2 \/ Len(str2) = 0 THEN Distance(0, M, FALSE)
    ELSE IF Len(str1) = 0 THEN Distance(Len(str2), M, FALSE)
    ELSE LET s1 == IF Len(str1) > Len(str2) THEN str2 ELSE str1
             s2 == IF Len(str1) > Len(str2) THEN str1 ELSE str2
         IN  LevenshteinOnMatrix(getLevenshteinMatrix(M, Len(s1) + 1, Len(s2) + 1), s1, s2)

\* A variant of the distance whose swap replaces str1 only.
calculateLevenshteinDistanceHalfSwap(M, str1, str2) ==
    IF str1 = str2 THEN Distance(0, M, FALSE)
    ELSE IF Len(str1) = 0 THEN Distance(Len(str2), M, FALSE)
    ELSE IF Len(str2) = 0 THEN Distance(Len(str1), M, FALSE)
    ELSE LET s1 == IF Len(str1) > Len(str2) THEN str2 ELSE str1
         IN  LevenshteinOnMatrix(getLevenshteinMatrix(M, Len(s1) + 1, Len(str2) + 1), s1, str2)

\* calculateLevenshteinDistanceOptimized(str1, str2) with the matrix field
\* holding M: the early returns, the swap that makes str1 the shorter
\* string, the acquisition of the matrix and the computation on it.
calculateLevenshteinDistanceOptimized(M, str1, str2) ==
    IF str1 = str2 THEN Distance(0, M, FALSE)
    ELSE IF Len(str1) = 0 THEN Distance(Len(str2), M, FALSE)
    ELSE IF Len(str2) = 0 THEN Distance(Len(str1), M, FALSE)
    ELSE LET s1 == IF Len(str1) > Len(str2) THEN str2 ELSE str1
             s2 == IF Len(str1) > Len(str2) THEN str1 ELSE str2
         IN  LevenshteinOnMatrix(getLevenshteinMatrix(M, Len(s1) + 1, Len(s2) + 1), s1, s2)

\* memory.content[query_field_name][query_field_sub_name] throws a
\* TypeError when content is stored as a string: content[field] is
\* undefined.
FieldThrows(d) == d.content = "string"

\* The text at content[query_field_name][query_field_sub_name] of the
\* stored documents.
FieldText(d) ==
    IF d.id = "m1" THEN <<"a", "b">>
    ELSE IF d.id = "m3" THEN <<"b", "a", "b">>
    ELSE IF d.id = "m5" THEN <<>>
    ELSE <<"a">>

\* An element of the list getCachedEmbeddings builds: the object with
\* embedding and levenshtein_score, or the empty array the inner catch
\* returns.
ScoredElement(d, score) ==
    [kind |-> "scored", id |-> d.id, embedding |-> d.embedding, levenshtein_score |-> score]
EmptyArray == [kind |-> "empty", id |-> NULL, embedding |-> NoEmbedding, levenshtein_score |-> 0]

\* A distance computation as it was made: its arguments, the matrix field
\* before it and what it gave.
DistanceCall(str1, str2, M, r) ==
    [str1 |-> str1, str2 |-> str2, before |-> M, after |-> r.matrix,
     value |-> r.value, threw |-> r.threw]

RECURSIVE ScoreAllYielding(_, _, _)
\* A variant of the map that is suspended after each document, another
\* call's computation (of "a" and "bab") running on the matrix meanwhile.
ScoreAllYielding(docs, input, M) ==
    IF docs = <<>> THEN [out |-> <<>>, matrix |-> M, calls |-> <<>>]
    ELSE LET d == Head(docs)
             r == IF FieldThrows(d) THEN Distance(0, M, TRUE)
                  ELSE calculateLevenshteinDistanceOptimized(M, input, FieldText(d))
             e == IF r.threw THEN EmptyArray ELSE ScoredElement(d, r.value)
             c == IF FieldThrows(d) THEN <<>>
                  ELSE <<DistanceCall(input, FieldText(d), M, r)>>
             other == calculateLevenshteinDistanceOptimized(r.matrix, <<"a">>, <<"b", "a", "b">>)
             rest == ScoreAllYielding(Tail(docs), input, other.matrix)
         IN  [out |-> <<e>> \o rest.out, matrix |-> rest.matrix,
              calls |-> c \o rest.calls]

RECURSIVE ScoreAll(_, _, _)
\* The map over the documents the aggregate returned, in order, each
\* computation using the matrix the one before left.  calls lists the
\* distance computations made.
ScoreAll(docs, input, M) ==
    IF docs = <<>> THEN [out |-> <<>>, matrix |-> M, calls |-> <<>>]
    ELSE LET d == Head(docs)
             r == IF FieldThrows(d) THEN Distance(0, M, TRUE)
                  ELSE calculateLevenshteinDistanceOptimized(M, input, FieldText(d))
             e == IF r.threw THEN EmptyArray ELSE ScoredElement(d, r.value)
             c == IF FieldThrows(d) THEN <<>>
                  ELSE <<DistanceCall(input, FieldText(d), M, r)>>
             rest == ScoreAll(Tail(docs), input, r.matrix)
         IN  [out |-> <<e>> \o rest.out, matrix |-> rest.matrix,
              calls |-> c \o rest.calls]

IndexPermutations(n) == {f \in [1..n -> 1..n] : \A i, j \in 1..n : i # j => f[i] # f[j]}

\* Array.prototype.sort with the comparator on levenshtein_score: stable
\* and ascending when every element has a score.  An empty array has no
\* levenshtein_score, both comparisons with undefined are false and the
\* comparator is not consistent: the order is then implementation-defined.
SortedByLevenshtein(s) ==
    {[i \in DOMAIN s |-> s[f[i]]] :
        f \in {g \in IndexPermutations(Len(s)) :
                  \/ \E i \in DOMAIN s : s[i].kind = "empty"
                  \/ \A i, j \in DOMAIN s :
                        i < j => \/ s[g[i]].levenshtein_score < s[g[j]].levenshtein_score
                                 \/ /\ s[g[i]].levenshtein_score = s[g[j]].levenshtein_score
                                    /\ g[i] < g[j]}}

\* What the $search pipeline may hand on: at most 2 * query_match_count
\* documents of the type, chosen and ordered by the text index.
RelevanceRows(a) ==
    DistinctSeqs({d \in Range(memories) : d.type = a.tableName}, 2 * a.match_count)

QueryInputs == {<<>>, <<"a">>, <<"b", "a">>, <<"a", "b">>}

GetCachedEmbeddingsArgs ==
    {Args("getCachedEmbeddings", "messages", NULL, NULL, ZeroEmbedding, NaN, n, FALSE, q) :
        n \in 1..MaxMatchCount, q \in QueryInputs}

\* getCachedEmbeddings runs to its first await, ensureConnection.
CallGetCachedEmbeddings(p) ==
    /\ pc[p] = "idle"
    /\ call' = [call EXCEPT ![p] = SimpleCall("getCachedEmbeddings")]
    /\ EnsureConnection(p, "gce_aggregate")
    /\ UNCHANGED <<adapterFields, storeVars, now, levenshteinMatrix, local, result, probeCount>>

\* The aggregate resolves, and the documents are scored, sorted and sliced
\* without a further await; or it throws and the outer catch returns the
\* still empty results.
GetCachedEmbeddingsAggregate(p, argSet) ==
    /\ pc[p] = "gce_aggregate"
    /\ \E a \in argSet :
         /\ call' = [call EXCEPT ![p] = a]
         /\ \/ \E docs \in RelevanceRows(a) :
                 LET scored == ScoreAll(docs, a.searchText, levenshteinMatrix)
                 IN  /\ levenshteinMatrix' = scored.matrix
                     /\ local' = [local EXCEPT ![p].raw = docs, ![p].path = "search",
                                               ![p].cand = scored.calls]
                     /\ \E sorted \in SortedByLevenshtein(scored.out) :
                           Finish(p, Returned(Limit(sorted, a.match_count)))
            \/ /\ local' = [local EXCEPT ![p].path = "failed"]
               /\ Finish(p, Returned(<<>>))
               /\ UNCHANGED levenshteinMatrix
    /\ UNCHANGED <<adapterFields, storeVars, now, probeCount>>

----------------------------------------------------------------------------
(* getCache, setCache and deleteCache called directly.                     *)

\* The values written; both under the one key and owner.
CacheValues == {<<"v1">>, <<"v2">>}

CacheArgs(op, values) ==
    {[SimpleCall(op) EXCEPT !.key = <<"k">>, !.agentId = "a1", !.value = v] : v \in values}

\* The documents the filter {key, agentId} matches.
CacheMatches(a) == {e \in cache : e.key = a.key /\ e.agentId = a.agentId}

CallGetCache(p) ==
    /\ pc[p] = "idle"
    /\ \E a \in CacheArgs("getCache", {<<>>}) : call' = [call EXCEPT ![p] = a]
    /\ EnsureConnection(p, "gc_find")
    /\ UNCHANGED <<adapterFields, storeVars, now, levenshteinMatrix, local, result, probeCount>>

\* findOne returns one of the unexpired documents that match, and getCache
\* its value, or undefined; a failure of findOne is thrown to the caller.
GetCacheFind(p) ==
    /\ pc[p] = "gc_find"
    /\ LET live == LiveEntries(call[p].key, call[p].agentId) IN
         \/ /\ live # {}
            /\ \E e \in live :
                 /\ local' = [local EXCEPT ![p].path = "hit"]
                 /\ Finish(p, Returned(e.value))
         \/ /\ live = {}
            /\ local' = [local EXCEPT ![p].path = "miss"]
            /\ Finish(p, Returned(<<>>))
         \/ /\ local' = [local EXCEPT ![p].path = "failed"]
            /\ Finish(p, Thrown("cache"))
    /\ UNCHANGED <<adapterFields, storeVars, now, levenshteinMatrix, call, probeCount>>

CallSetCache(p) ==
    /\ pc[p] = "idle"
    /\ \E a \in CacheArgs("setCache", CacheValues) : call' = [call EXCEPT ![p] = a]
    /\ EnsureConnection(p, "sc_update")
    /\ UNCHANGED <<adapterFields, storeVars, now, levenshteinMatrix, local, result, probeCount>>

\* updateOne with upsert: the store looks for a document that matches
\* {key, agentId} and sets value, createdAt and expiresAt of one; when none
\* matches it goes on to insert the document.  The cache collection has no
\* unique index on (key, agentId), so nothing ties the lookup of one
\* request to the insert of another.  A failure makes setCache return false.
SetCacheUpdate(p) ==
    /\ pc[p] = "sc_update"
    /\ LET a == call[p]
           doc == [key |-> a.key, agentId |-> a.agentId, value |-> a.value,
                   createdAt |-> now, expiresAt |-> now + CacheTtl]
       IN  \/ /\ CacheMatches(a) # {}
              /\ \E e \in CacheMatches(a) : cache' = (cache \ {e}) \cup {doc}
              /\ local' = [local EXCEPT ![p].path = "update"]
              /\ Finish(p, Returned(<<"true">>))
           \/ /\ CacheMatches(a) = {}
              /\ pc' = [pc EXCEPT ![p] = "sc_insert"]
              /\ local' = [local EXCEPT ![p].path = "insert", ![p].cand = <<doc>>]
              /\ UNCHANGED <<cache, cont, result>>
           \/ /\ local' = [local EXCEPT ![p].path = "failed"]
              /\ Finish(p, Returned(<<"false">>))
              /\ UNCHANGED cache
    /\ UNCHANGED <<adapterFields, memories, knowledge, now, levenshteinMatrix, call, probeCount>>

\* The insert of the upsert that found no document.
SetCacheInsert(p) ==
    /\ pc[p] = "sc_insert"
    /\ \/ /\ cache' = cache \cup {local[p].cand[1]}
          /\ Finish(p, Returned(<<"true">>))
          /\ UNCHANGED local
       \/ /\ local' = [local EXCEPT ![p].path = "failed"]
          /\ Finish(p, Returned(<<"false">>))
          /\ UNCHANGED cache
    /\ UNCHANGED <<adapterFields, memories, knowledge, now, levenshteinMatrix, call, probeCount>>

CallDeleteCache(p) ==
    /\ pc[p] = "idle"
    /\ \E a \in CacheArgs("deleteCache", {<<>>}) : call' = [call EXCEPT ![p] = a]
    /\ EnsureConnection(p, "dc_delete")
    /\ UNCHANGED <<adapterFields, storeVars, now, levenshteinMatrix, local, result, probeCount>>

\* deleteOne removes one document that matches {key, agentId}, if any, and
\* deleteCache returns true; a failure makes it return false.
DeleteCacheDelete(p) ==
    /\ pc[p] = "dc_delete"
    /\ \/ /\ CacheMatches(call[p]) # {}
          /\ \E e \in CacheMatches(call[p]) : cache' = cache \ {e}
          /\ local' = [local EXCEPT ![p].path = "deleted"]
          /\ Finish(p, Returned(<<"true">>))
       \/ /\ CacheMatches(call[p]) = {}
          /\ local' = [local EXCEPT ![p].path = "none"]
          /\ Finish(p, Returned(<<"true">>))
          /\ UNCHANGED cache
       \/ /\ local' = [local EXCEPT ![p].path = "failed"]
          /\ Finish(p, Returned(<<"false">>))
          /\ UNCHANGED cache
    /\ UNCHANGED <<adapterFields, memories, knowledge, now, levenshteinMatrix, call, probeCount>>

----------------------------------------------------------------------------
(* Time and the store's expiry of cache entries.                           *)

\* The clock advances by half the cache TTL.
TickStep == CacheTtl \div 2

Tick ==
    /\ now < MaxTicks * TickStep
    /\ now' = now + TickStep
    /\ UNCHANGED <<adapterFields, storeVars, pc, call, cont, local, result, probeCount,
                   levenshteinMatrix>>

\* The TTL index on cache.expiresAt (expireAfterSeconds: 0): at some moment
\* after their expiry the store's background task deletes the entries.
CacheSweep ==
    /\ \E e \in cache : e.expiresAt <= now
    /\ cache' = {e \in cache : e.expiresAt > now}
    /\ UNCHANGED <<adapterFields, memories, knowledge, now, levenshteinMatrix, pc, call, cont, local,
                   result, probeCount>>

----------------------------------------------------------------------------
(* A plain operation: getRoom stands for every operation that only awaits  *)
(* ensureConnection and then queries the store.                            *)

CallGetRoom(p) ==
    /\ pc[p] = "idle"
    /\ call' = [call EXCEPT ![p] = SimpleCall("getRoom")]
    /\ EnsureConnection(p, "gr_find")
    /\ UNCHANGED <<adapterFields, storeVars, now, levenshteinMatrix, local, result, probeCount>>

GetRoomFind(p) ==
    /\ pc[p] = "gr_find"
    /\ \/ Finish(p, Returned(<<>>))
       \/ Finish(p, Thrown("find"))
    /\ UNCHANGED <<adapterFields, storeVars, now, levenshteinMatrix, call, local, probeCount>>

----------------------------------------------------------------------------
(* The specifications.                                                     *)

\* The adapter as its constructor leaves it; no call has been made.
Constructed ==
    /\ hasVectorSearch = FALSE
    /\ isConnected = FALSE
    /\ isVectorSearchIndexComputable = TRUE
    /\ cache = {}
    /\ now = 0
    /\ pc = [p \in Callers |-> "idle"]
    /\ call = [p \in Callers |-> NoCall]
    /\ cont = [p \in Callers |-> "none"]
    /\ local = [p \in Callers |-> NoLocal]
    /\ result = [p \in Callers |-> NoResult]
    /\ probeCount = 0
    /\ levenshteinMatrix = <<>>

Init ==
    /\ Constructed
    /\ memories = SeedMemories
    /\ knowledge = SeedKnowledge

\* The adapter constructed on a store that holds one knowledge document.
InitKnow ==
    /\ Constructed
    /\ memories = SeedMemories
    /\ knowledge = SubSeq(SeedKnowledge, 1, 1)

\* The steps of init() and close() once called, and the return of a call.
ConnectionStep(p) ==
    \/ InitConnect(p)
    \/ InitServerStatus(p)
    \/ InitCreateVectorIndex(p)
    \/ InitTopology(p)
    \/ createStandardEmbeddingIndexes(p)
    \/ InitSharding(p)
    \/ CloseDone(p)
    \/ Return(p)

\* The caller that issues the searches; the other caller closes the
\* connection at any moment of a search.
DataCallers == {"c1"}

\* The knowledge searches the data caller issues.
SearchKnowledgeArgs ==
    {Args("searchKnowledge", NULL, NULL, "a1", <<3, 4>>, Rat(1, 2), 1, FALSE, t) :
        t \in {<<"a">>}}

SearchStep(p) ==
    \/ CallInit(p)
    \/ CallSearchMemories(p)
    \/ SearchMemoriesStart(p, SearchMemoriesArgs)
    \/ SearchMemoriesNative(p)
    \/ SearchMemoriesFallbackFind(p)
    \/ CallSearchMemoriesByEmbedding(p)
    \/ SearchMemoriesByEmbeddingStart(p)
    \/ SearchMemoriesByEmbeddingNative(p)
    \/ CallSearchKnowledge(p)
    \/ SearchKnowledgeStart(p, SearchKnowledgeArgs)
    \/ SearchKnowledgeGetCache(p)
    \/ SearchKnowledgeNative(p)
    \/ SearchKnowledgeFallback(p)
    \/ SearchKnowledgeSetCache(p)

\* Searches of one caller, with close() calls of any caller interleaved.
Next ==
    \/ \E p \in Callers : ConnectionStep(p)
    \/ \E p \in Callers : CallClose(p)
    \/ \E p \in DataCallers : SearchStep(p)

Spec == Init /\ [][Next]_vars

\* The one search issued while connections are established concurrently.
ConnSearchArgs ==
    {Args("searchMemories", "messages", "r1", NULL, <<3, 4>>, Rat(95, 100), 1, FALSE, <<>>)}

\* init(), close() and operations that reach init() through
\* ensureConnection, issued by every caller concurrently.
NextConn ==
    \E p \in Callers :
        \/ ConnectionStep(p)
        \/ CallInit(p)
        \/ CallClose(p)
        \/ CallGetRoom(p)
        \/ GetRoomFind(p)
        \/ CallSearchMemories(p)
        \/ SearchMemoriesStart(p, ConnSearchArgs)
        \/ SearchMemoriesNative(p)
        \/ SearchMemoriesFallbackFind(p)

SpecConn == Init /\ [][NextConn]_vars

\* The memory writes of one caller, with close() calls of any caller
\* interleaved.
WriteStep(p) ==
    \/ CallInit(p)
    \/ CallCreateMemory(p)
    \/ CreateMemoryStart(p, CreateMemoryArgs)
    \/ SearchMemoriesStart(p, {call[p]})
    \/ SearchMemoriesNative(p)
    \/ SearchMemoriesFallbackFind(p)
    \/ CreateMemoryInsert(p)
    \/ CallRemoveMemory(p)
    \/ RemoveMemoryDelete(p)

NextWrite ==
    \/ \E p \in Callers : ConnectionStep(p)
    \/ \E p \in Callers : CallClose(p)
    \/ \E p \in DataCallers : WriteStep(p)

SpecWrite == Init /\ [][NextWrite]_vars

\* The memory two callers create at the same time: no stored record
\* flagged unique has its type, room and owner.
ConcurrentMemoryArgs ==
    {Args("createMemory", "messages", "r1", "a2", <<3, 4>>, Rat(95, 100), 1, TRUE, <<>>)}

ConcurrentCreateStep(p) ==
    \/ InitConnect(p)
    \/ InitServerStatus(p)
    \/ InitCreateVectorIndex(p)
    \/ InitTopology(p)
    \/ createStandardEmbeddingIndexes(p)
    \/ InitSharding(p)
    \/ CallCreateMemory(p)
    \/ CreateMemoryStart(p, ConcurrentMemoryArgs)
    \/ SearchMemoriesStart(p, {call[p]})
    \/ SearchMemoriesNative(p)
    \/ SearchMemoriesFallbackFind(p)
    \/ CreateMemoryInsert(p)

\* Each of two callers issues one createMemory, in any interleaving.
NextConcurrentCreate == \E p \in Callers : ConcurrentCreateStep(p)

SpecConcurrentCreate == Init /\ [][NextConcurrentCreate]_vars

\* The knowledge searches the caller of SpecKnow issues.
KnowSearchArgs ==
    {Args("searchKnowledge", NULL, NULL, "a1", <<3, 4>>, Rat(95, 100), 1, FALSE, <<"a">>),
     Args("searchKnowledge", NULL, NULL, "a1", <<1, 0>>, Rat(1, 2), 2, FALSE, <<"a">>)}

\* The memories the writer of SpecKnow creates.
KnowMemoryArgs ==
    {Args("createMemory", "messages", "r1", "a1", NoEmbedding, Rat(95, 100), 1, TRUE, <<>>)}

KnowSearchStep(p) ==
    \/ CallSearchKnowledge(p)
    \/ SearchKnowledgeStart(p, KnowSearchArgs)
    \/ SearchKnowledgeGetCache(p)
    \/ SearchKnowledgeNative(p)
    \/ SearchKnowledgeFallback(p)
    \/ SearchKnowledgeSetCache(p)

KnowWriteStep(p) ==
    \/ CallCreateKnowledge(p)
    \/ CreateKnowledgeUpsert(p, KnowledgeItems)
    \/ CallRemoveKnowledge(p)
    \/ RemoveKnowledgeDelete(p)
    \/ CallClearKnowledge(p)
    \/ ClearKnowledgeDelete(p)
    \/ CallCreateMemory(p)
    \/ CreateMemoryStart(p, KnowMemoryArgs)
    \/ CreateMemoryInsert(p)

\* The steps of init() and the return of a finished call.
KnowConnStep(p) ==
    \/ InitConnect(p)
    \/ InitServerStatus(p)
    \/ InitCreateVectorIndex(p)
    \/ InitTopology(p)
    \/ createStandardEmbeddingIndexes(p)
    \/ InitSharding(p)
    \/ Return(p)

\* One caller searches the knowledge and writes knowledge and memories,
\* one call after the other; time passes and the store expires cache
\* entries.
NextKnow ==
    \/ \E p \in DataCallers : KnowConnStep(p)
    \/ \E p \in DataCallers : KnowSearchStep(p)
    \/ \E p \in DataCallers : KnowWriteStep(p)
    \/ Tick
    \/ CacheSweep

SpecKnow == InitKnow /\ [][NextKnow]_vars

CacheStep(p) ==
    \/ CallGetCache(p)
    \/ GetCacheFind(p)
    \/ CallSetCache(p)
    \/ SetCacheUpdate(p)
    \/ SetCacheInsert(p)
    \/ CallDeleteCache(p)
    \/ DeleteCacheDelete(p)

\* Two callers read, write and delete the cache entry of one key and owner,
\* in any interleaving; time passes and the store expires entries.
NextCache ==
    \/ \E p \in Callers : KnowConnStep(p)
    \/ \E p \in Callers : CacheStep(p)
    \/ Tick
    \/ CacheSweep

SpecCache == Init /\ [][NextCache]_vars

EmbeddingsStep(p) ==
    \/ CallGetCachedEmbeddings(p)
    \/ GetCachedEmbeddingsAggregate(p, GetCachedEmbeddingsArgs)

\* One caller asks for cached embeddings, one call after the other.
NextEmb ==
    \/ \E p \in DataCallers : KnowConnStep(p)
    \/ \E p \in DataCallers : EmbeddingsStep(p)

SpecEmb == Init /\ [][NextEmb]_vars

ConcurrentEmbeddingsArgs ==
    {a \in GetCachedEmbeddingsArgs : a.match_count = 1 /\ a.searchText = <<"b", "a">>}

\* Two callers ask for cached embeddings concurrently.
NextEmbConc ==
    \/ \E p \in Callers : KnowConnStep(p)
    \/ \E p \in Callers : CallGetCachedEmbeddings(p)
    \/ \E p \in Callers : GetCachedEmbeddingsAggregate(p, ConcurrentEmbeddingsArgs)

SpecEmbConc == Init /\ [][NextEmbConc]_vars

----------------------------------------------------------------------------
(* Properties.                                                             *)

SearchOps == {"searchMemories", "searchKnowledge"}

\* What searchKnowledge returns for the rows its fallback query gave.
ReturnsFallbackResult(p) ==
    /\ result[p].status = "ok"
    /\ result[p].value =
          IF call[p].op = "searchKnowledge"
          THEN MapAllKnowledge(local[p].raw)
          ELSE FallbackRank(local[p].raw, call[p].embedding)

\* C1: when the native vector-search query of searchMemories or
\* searchKnowledge throws, the call does not raise: it runs the fallback
\* query and, provided that query succeeds, returns its result.
C1_NativeFailureRecovered ==
    \A p \in Callers :
        call[p].op \in SearchOps =>
            /\ result[p].by # "native"
            /\ (pc[p] = "done" /\ local[p].path = "fallbackAfterNative"
                    /\ local[p].fallback = "ok") => ReturnsFallbackResult(p)

\* The knowledge results the fallback pipeline gives when vectorScore is
\* computed by the application from the stored embeddings.
ComputedFallbackResults(a) ==
    {MapAllKnowledge(out) :
        out \in getKnowledgeSearchPipeline(FallbackKnowledgeRows(a), "cosine", a)}

\* C2: with a native search that throws, searchKnowledge returns the
\* accepted candidates in descending combinedScore, each vectorScore being
\* the similarity the application computes from the stored embedding.
C2_FallbackRanksByComputedSimilarity ==
    \A p \in Callers :
        (pc[p] = "done" /\ call[p].op = "searchKnowledge"
            /\ local[p].path = "fallbackAfterNative" /\ result[p].status = "ok")
        => result[p].value \in ComputedFallbackResults(call[p])

\* C3: every record searchKnowledge returns on a cache miss, by either
\* path, is owned by the requesting agent or is shared.
C3_OwnerScoping ==
    \A p \in Callers :
        (pc[p] = "done" /\ call[p].op = "searchKnowledge"
            /\ result[p].status = "ok" /\ local[p].path # "cache")
        => \A i \in DOMAIN result[p].value :
              \/ result[p].value[i].agentId = call[p].agentId
              \/ result[p].value[i].isShared

\* C4: every record searchMemories returns, by the native path, the
\* fallback path or the fallback after a native failure, has the requested
\* type and room, the requested agent when one is given, and is flagged
\* unique when unique is requested.
C4_StructuralScoping ==
    \A p \in Callers :
        (pc[p] = "done" /\ call[p].op = "searchMemories" /\ result[p].status = "ok")
        => \A i \in DOMAIN result[p].value :
              LET m == result[p].value[i]
              IN  /\ m.type = call[p].tableName
                  /\ m.roomId = call[p].roomId
                  /\ call[p].agentId # NULL => m.agentId = call[p].agentId
                  /\ call[p].unique => m.unique

\* C4 witness: a fallback after a native failure returned records under an
\* agent and a unique filter.
C4_Witness ==
    \E p \in Callers :
        /\ pc[p] = "done"
        /\ call[p].op = "searchMemories"
        /\ local[p].path = "fallbackAfterNative"
        /\ result[p].status = "ok"
        /\ result[p].value # <<>>
        /\ call[p].agentId # NULL
        /\ call[p].unique

\* C5: while the capability flag is fallback-only no search operation
\* issues a native vector-search request.
C5_FlagGatesNativeSearch ==
    \A p \in Callers : local[p].native # "fallback-only"

\* C6: once the capability flag is fallback-only it never becomes
\* native-available again.
C6_FlagOnlyMovesForward ==
    [][Capability = "fallback-only" => Capability' # "native-available"]_vars

\* C7: the capability probe runs at most once per connection, however many
\* operations are issued concurrently.
C7_ProbeAtMostOnce == probeCount <= 1

\* C8: an init() whose capability detection failed ends its detection with
\* the flag fallback-only, and completes successfully.
C8_DetectionFailureEndsFallbackOnly ==
    \A p \in Callers :
        local[p].detect = "failed" =>
            /\ pc[p] = "init_sharding" => Capability = "fallback-only"
            /\ (pc[p] = "done" /\ call[p].op = "init") => result[p].status = "ok"

\* C9: when the fallback query fails, reached directly or after a failed
\* native query, searchMemories and searchKnowledge raise and return no
\* result.
C9_FallbackFailurePropagates ==
    \A p \in Callers :
        (call[p].op \in SearchOps /\ local[p].fallback = "failed")
        => /\ pc[p] = "done"
           /\ result[p].status = "error"
           /\ result[p].value = <<>>

\* C9 witness: the fallback query failed after a failed native query.
C9_Witness ==
    \E p \in Callers :
        /\ call[p].op = "searchKnowledge"
        /\ local[p].path = "fallbackAfterNative"
        /\ local[p].fallback = "failed"
        /\ result[p].status = "error"

\* A step in which the native query of p fails and its catch block runs.
NativeFailureStep(p) ==
    /\ pc[p] \in {"sm_native", "sk_native"}
    /\ local'[p].path = "fallbackAfterNative"

\* C10: a native-search failure changes no adapter field and no stored
\* document: the capability flag stays native-available, and a search that
\* then reaches the path decision issues the native query again.
C10_NativeFailureChangesNothing ==
    [][\A p \in Callers :
          /\ NativeFailureStep(p) =>
                /\ UNCHANGED <<adapterFields, storeVars, probeCount>>
                /\ Capability = "native-available" => Capability' = "native-available"
          /\ (pc[p] = "sm_start" /\ pc'[p] # "sm_start" /\ hasVectorSearch)
                => pc'[p] = "sm_native"]_vars

\* C10 witness: a call completed through the fallback after its native
\* query failed, and the flag is still native-available.
C10_Witness ==
    \E p \in Callers :
        /\ pc[p] = "done"
        /\ local[p].path = "fallbackAfterNative"
        /\ result[p].status = "ok"
        /\ Capability = "native-available"

----------------------------------------------------------------------------
(* Properties of the memory writes.                                        *)

\* The record the createMemory call of p persisted.
InsertedBy(p) ==
    {memories[i] : i \in {j \in DOMAIN memories : memories[j].id = local[p].inserted}}

\* The records that were stored when the createMemory call of p was made.
ExistingFor(p) == {d \in Range(memories) : d.id # local[p].inserted}

\* A createMemory call of p has finished without a failure of the store.
CreateMemoryDone(p) ==
    /\ pc[p] = "done"
    /\ call[p].op = "createMemory"
    /\ result[p].by \in {"none", "similarity"}

\* C11: createMemory of a record whose embedding is identical to that of
\* an existing record flagged unique in the same room and type persists
\* the new record with unique = false, whatever the capability flag.
C11_IdenticalEmbeddingIsNotUnique ==
    \A p \in Callers :
        (/\ CreateMemoryDone(p)
         /\ call[p].embedding # NoEmbedding
         /\ \E d \in ExistingFor(p) :
               /\ d.type = call[p].tableName
               /\ d.roomId = call[p].roomId
               /\ d.unique
               /\ d.embedding = call[p].embedding)
        => \E m \in InsertedBy(p) : m.unique = FALSE

\* An existing record flagged unique in the room, owner and type of the
\* call of p whose similarity to the new embedding is at least 0.95.
SimilarUnique(p) ==
    {d \in ExistingFor(p) :
        /\ d.type = call[p].tableName
        /\ d.roomId = call[p].roomId
        /\ d.agentId = call[p].agentId
        /\ d.unique
        /\ d.embedding # NoEmbedding
        /\ RGeq(cosineSimilarity(call[p].embedding, d.embedding), Rat(95, 100))}

\* C12: createMemory marks a record with an embedding non-unique only if
\* an existing unique record of the same room, owner and type has
\* similarity at least 0.95; with no such record it is persisted unique.
C12_DedupThreshold ==
    \A p \in Callers :
        (CreateMemoryDone(p) /\ call[p].embedding # NoEmbedding)
        => \A m \in InsertedBy(p) : m.unique = (SimilarUnique(p) = {})

\* C13: createMemory of a record without an embedding issues no similarity
\* search and persists the record with unique = true, whatever is stored.
C13_NoEmbeddingIsUnique ==
    \A p \in Callers :
        (call[p].op = "createMemory" /\ call[p].embedding = NoEmbedding
            /\ pc[p] \in {"cm_insert", "done"})
        => /\ local[p].path = "none"
           /\ local[p].native = "none"
           /\ local[p].fallback = "none"
           /\ \A m \in InsertedBy(p) : m.unique = TRUE

\* A record without an embedding was persisted in a room and type that
\* already held a record flagged unique.
C13_Witness ==
    \E p \in Callers :
        /\ pc[p] = "done"
        /\ call[p].op = "createMemory"
        /\ call[p].embedding = NoEmbedding
        /\ InsertedBy(p) # {}
        /\ \E d \in ExistingFor(p) :
              d.type = call[p].tableName /\ d.roomId = call[p].roomId /\ d.unique

\* C14: no step changes the unique flag of a persisted memory record: a
\* record is stored with its flag and keeps it until it is removed.
C14_UniqueFlagIsNeverRevised ==
    [][\A i \in DOMAIN memories : \A j \in DOMAIN memories' :
          memories[i].id = memories'[j].id
              => memories'[j].unique = memories[i].unique]_vars

\* A duplicate was persisted as non-unique after a record of the same
\* room, owner, type and embedding, which is still flagged unique.
C14_Witness ==
    \E i, j \in DOMAIN memories :
        /\ i < j
        /\ memories[j].id \in NewIds
        /\ memories[i].type = memories[j].type
        /\ memories[i].roomId = memories[j].roomId
        /\ memories[i].agentId = memories[j].agentId
        /\ memories[i].embedding = memories[j].embedding
        /\ memories[i].unique
        /\ ~memories[j].unique

\* C15: createMemory never completes normally for a record that was not
\* persisted: a failure of the dedup search or of the insert reaches the
\* caller.
C15_WriteFailureSurfaced ==
    \A p \in Callers :
        (pc[p] = "done" /\ call[p].op = "createMemory" /\ result[p].status = "ok")
        => InsertedBy(p) # {}

----------------------------------------------------------------------------
(* Properties of the knowledge writes and of the cache.                    *)

\* C16: createKnowledge of an id that is already stored, for a shared or
\* a non-shared item, completes normally and raises no error, also when
\* the store reports a duplicate-key conflict.
C16_CreateIfAbsent ==
    \A p \in Callers :
        (/\ pc[p] = "done"
         /\ call[p].op = "createKnowledge"
         /\ local[p].inserted = "none"
         /\ result[p].by \in {"none", "duplicate"})
        => result[p].status = "ok"

\* The cache entries of a key that were written less than the TTL ago.
WrittenWithinTtl(key, agentId) ==
    {e \in cache : e.key = key /\ e.agentId = agentId /\ now < e.createdAt + CacheTtl}

\* The cache read of the searchKnowledge call of p resolves in this step.
CacheReadStep(p) ==
    /\ pc[p] = "sk_getCache"
    /\ pc'[p] # "sk_getCache"
    /\ result'[p].by # "cache"

\* C17: a searchKnowledge call made while the cache holds an entry for its
\* key written within the TTL returns that entry's value as it was
\* serialized, and issues neither a native nor a fallback query.
C17_CacheHitReturnsStoredResult ==
    [][\A p \in Callers :
          (CacheReadStep(p) /\ WrittenWithinTtl(CacheKey(call[p]), call[p].agentId) # {})
          => /\ pc'[p] = "done"
             /\ local'[p].path = "cache"
             /\ local'[p].native = "none"
             /\ local'[p].fallback = "none"
             /\ \E e \in WrittenWithinTtl(CacheKey(call[p]), call[p].agentId) :
                   result'[p] = Returned(e.value)]_vars

\* A call was served a non-empty result from an entry written earlier.
C17_Witness ==
    \E p \in Callers :
        /\ pc[p] = "done"
        /\ call[p].op = "searchKnowledge"
        /\ local[p].path = "cache"
        /\ result[p].value # <<>>
        /\ \E e \in cache : e.value = result[p].value /\ e.createdAt < now

\* C18: once the TTL has elapsed since an entry was written, the cache
\* read finds nothing and searchKnowledge searches afresh, whether or not
\* the store has deleted the entry; a value served from the cache was
\* written less than the TTL ago.
C18_ExpiredEntryIsNotServed ==
    [][\A p \in Callers :
          CacheReadStep(p)
          => /\ local'[p].path = "cache"
                   => \E e \in WrittenWithinTtl(CacheKey(call[p]), call[p].agentId) :
                         result'[p].value = e.value
             /\ WrittenWithinTtl(CacheKey(call[p]), call[p].agentId) = {}
                   => pc'[p] \in {"sk_native", "sk_fallback"}]_vars

\* A fresh search is under way while the expired entry of its key is
\* still stored.
C18_Witness ==
    \E p \in Callers :
        /\ pc[p] \in {"sk_native", "sk_fallback"}
        /\ \E e \in cache :
              /\ e.key = CacheKey(call[p])
              /\ e.agentId = call[p].agentId
              /\ e.createdAt + CacheTtl <= now

WriteOps == {"createKnowledge", "removeKnowledge", "clearKnowledge",
             "createMemory", "removeMemory"}

\* C19: no step of createKnowledge, removeKnowledge, clearKnowledge or of a
\* memory write changes a cache entry.
C19_WritesLeaveCacheUnchanged ==
    [][\A p \in Callers :
          (pc'[p] # pc[p] /\ (call[p].op \in WriteOps \/ call'[p].op \in WriteOps))
          => cache' = cache]_vars

\* A search was served from the cache a result that names a knowledge
\* record removed since.
C19_Witness ==
    \E p \in Callers :
        /\ pc[p] = "done"
        /\ call[p].op = "searchKnowledge"
        /\ local[p].path = "cache"
        /\ \E i \in DOMAIN result[p].value : result[p].value[i].id \notin KnowledgeIds

\* The acceptance rule of the specification.
AcceptanceRule(vectorScore, keywordScore, threshold) ==
    \/ RGeq(vectorScore, threshold)
    \/ RGt(keywordScore, Rat(1, 1)) /\ RGeq(vectorScore, Rat(3, 10))

\* C20: a candidate of a knowledge search is returned if and only if
\* vectorScore >= match_threshold, or keywordScore > 1.0 and vectorScore
\* >= 0.3: 0.4 with 3.0 is accepted under 0.95, 0.2 with 1.0 is rejected.
C20_AcceptanceRule ==
    /\ Accepted([vectorScore |-> Rat(2, 5), keywordScore |-> Rat(3, 1)], Rat(95, 100))
    /\ ~Accepted([vectorScore |-> Rat(1, 5), keywordScore |-> Rat(1, 1)], Rat(95, 100))
    /\ \A p \in Callers :
          (pc[p] = "done" /\ call[p].op = "searchKnowledge"
              /\ result[p].status = "ok" /\ local[p].path # "cache")
          => /\ \A i \in DOMAIN local[p].cand :
                   (\E j \in DOMAIN result[p].value :
                        result[p].value[j].id = local[p].cand[i].doc.id)
                   <=> AcceptanceRule(local[p].cand[i].vectorScore,
                                      local[p].cand[i].keywordScore,
                                      call[p].match_threshold)
             /\ \A j \in DOMAIN result[p].value :
                   \E i \in DOMAIN local[p].cand :
                        result[p].value[j].id = local[p].cand[i].doc.id

\* A candidate of vectorScore 0.4 and keywordScore 3.0 was returned under
\* threshold 0.95.
C20_Witness ==
    \E p \in Callers :
        /\ pc[p] = "done"
        /\ call[p].op = "searchKnowledge"
        /\ call[p].match_threshold = Rat(95, 100)
        /\ \E i \in DOMAIN local[p].cand :
              /\ local[p].cand[i].vectorScore = Rat(2, 5)
              /\ local[p].cand[i].keywordScore = Rat(3, 1)
              /\ \E j \in DOMAIN result[p].value :
                    result[p].value[j].id = local[p].cand[i].doc.id

----------------------------------------------------------------------------
(* Properties of the knowledge scoring.                                    *)

\* The record's text contains the query text, case-insensitively.
TextMatches(searchText, d) ==
    searchText # <<>> /\ RegexMatch(ToLower(d.text), ToLower(searchText))

\* keywordScore as specified: the text factor times the structural factor,
\* from the record's text and its chunk / main marks.
SpecifiedKeywordScore(searchText, d) ==
    RMul(IF TextMatches(searchText, d) THEN Rat(3, 1) ELSE Rat(1, 1),
         IF d.isChunk THEN Rat(3, 2) ELSE IF d.isMain THEN Rat(6, 5) ELSE Rat(1, 1))

\* A searchKnowledge call of p has computed its results by a search.
KnowledgeSearched(p) ==
    /\ pc[p] = "done"
    /\ call[p].op = "searchKnowledge"
    /\ result[p].status = "ok"
    /\ local[p].path # "cache"

\* C21: the keywordScore of every candidate is the product of the text
\* factor (3.0 when query text is given and the record's text contains it
\* case-insensitively, else 1.0) and the structural factor (1.5 chunk, else
\* 1.2 main, else 1.0).
C21_KeywordScore ==
    \A p \in Callers :
        KnowledgeSearched(p)
        => \A i \in DOMAIN local[p].cand :
              local[p].cand[i].keywordScore =
                  SpecifiedKeywordScore(call[p].searchText, local[p].cand[i].doc)

\* C22: the results of a knowledge search are in descending order of
\* combinedScore, combinedScore is vectorScore times keywordScore, and the
\* similarity reported for each record is its combinedScore.
C22_OrderedByCombinedScore ==
    \A p \in Callers :
        KnowledgeSearched(p)
        => /\ Len(result[p].value) = Len(local[p].raw)
           /\ \A i \in DOMAIN result[p].value :
                 /\ result[p].value[i].id = local[p].raw[i].doc.id
                 /\ local[p].raw[i].combinedScore =
                        RMul(local[p].raw[i].vectorScore, local[p].raw[i].keywordScore)
                 /\ result[p].value[i].similarity = local[p].raw[i].combinedScore
           /\ \A i, j \in DOMAIN result[p].value :
                 i < j => RGeq(result[p].value[i].similarity,
                               result[p].value[j].similarity)

\* A search returned two records of different combinedScore.
C22_Witness ==
    \E p \in Callers :
        /\ KnowledgeSearched(p)
        /\ Len(result[p].value) = 2
        /\ RGt(result[p].value[1].similarity, result[p].value[2].similarity)

\* C23: of two accepted candidates with the same vectorScore, one whose text
\* matches the query text and one whose text does not, the matching one is
\* ranked first, whatever their chunk / main marks.
C23_HybridRanking ==
    \A p \in Callers :
        KnowledgeSearched(p)
        => \A i, j \in DOMAIN local[p].raw :
              /\ i < j
              /\ local[p].raw[i].vectorScore = local[p].raw[j].vectorScore
              /\ TextMatches(call[p].searchText, local[p].raw[j].doc)
              => TextMatches(call[p].searchText, local[p].raw[i].doc)

\* C24: on a cache miss searchKnowledge returns at most match_count records,
\* on the native path and on the fallback path alike.
C24_TruncatedToMatchCount ==
    \A p \in Callers :
        KnowledgeSearched(p) => Len(result[p].value) <= call[p].match_count

\* The candidates of a fallback search as rows carrying their cosine
\* similarity to the query as the index score.
RowsWithCosine(a) ==
    LET rows == FallbackKnowledgeRows(a)
    IN  [i \in DOMAIN rows |->
            Row(rows[i].doc, cosineSimilarity(a.embedding, rows[i].doc.embedding))]

RowIds(rows) == [i \in DOMAIN rows |-> rows[i].doc.id]

\* C25: for the same candidates, the same similarity of each to the query,
\* the same query text and threshold, the fallback path accepts the same
\* candidates as the native path and returns them in the same order.
C25_PathIndependentRanking ==
    \A p \in Callers :
        /\ KnowledgeSearched(p)
        /\ local[p].fallback = "ok"
        /\ local[p].scoreFrom = "cosine"
        => RowIds(local[p].raw) \in
              {RowIds(out) : out \in getKnowledgeSearchPipeline(RowsWithCosine(call[p]),
                                                               "meta", call[p])}

\* A searchKnowledge call of p scored its candidates on the fallback path
\* with the cosine expression.
FallbackScored(p) ==
    /\ KnowledgeSearched(p)
    /\ local[p].fallback = "ok"
    /\ local[p].scoreFrom = "cosine"

\* C26: on the fallback path every candidate's vectorScore lies in [0,1]
\* and is non-decreasing in the cosine similarity of the candidate's
\* embedding to the query; a candidate without an embedding scores lowest.
C26_FallbackVectorScore ==
    \A p \in Callers :
        FallbackScored(p)
        => LET c == local[p].cand
               Cos(i) == cosineSimilarity(call[p].embedding, c[i].doc.embedding)
           IN  /\ \A i \in DOMAIN c :
                     /\ RGeq(c[i].vectorScore, Rat(0, 1))
                     /\ RGeq(Rat(1, 1), c[i].vectorScore)
               /\ \A i, j \in DOMAIN c :
                     /\ c[i].doc.embedding # NoEmbedding
                     /\ c[j].doc.embedding # NoEmbedding
                     /\ RGeq(Cos(j), Cos(i))
                     => RGeq(c[j].vectorScore, c[i].vectorScore)
               /\ \A i, j \in DOMAIN c :
                     c[i].doc.embedding = NoEmbedding
                     => RGeq(c[j].vectorScore, c[i].vectorScore)

----------------------------------------------------------------------------
(* Properties of the fallback memory search.                               *)

\* A searchMemories call of p returned the ranking of its fallback query.
MemoriesFallbackReturned(p) ==
    /\ pc[p] = "done"
    /\ call[p].op = "searchMemories"
    /\ local[p].outer = "none"
    /\ local[p].fallback = "ok"
    /\ result[p].status = "ok"

\* C27: fallback memory search returns, in descending cosine similarity,
\* the match_count most similar of all stored records satisfying the
\* structural filters: no matching record left out is strictly more
\* similar to the query than a returned one.
C27_FallbackReturnsTopMatches ==
    \A p \in Callers :
        MemoriesFallbackReturned(p)
        => LET v == result[p].value
           IN  /\ \A i, j \in DOMAIN v :
                     i < j => ~RGt(v[j].similarity, v[i].similarity)
               /\ \A k \in DOMAIN memories :
                     /\ MatchesQuery(MemoryQuery(call[p]), memories[k])
                     /\ memories[k].embedding # NoEmbedding
                     /\ \A i \in DOMAIN v : v[i].id # memories[k].id
                     => \A i \in DOMAIN v :
                           ~RGt(cosineSimilarity(call[p].embedding, memories[k].embedding),
                                v[i].similarity)

\* The ranking a fallback memory search of p computed from the rows it
\* fetched.
FallbackRanking(p) == FallbackRank(local[p].raw, call[p].embedding)

\* The stored records the dedup search of p's createMemory could match whose
\* similarity to the new embedding is defined.
DefinedCandidates(p) ==
    {d \in ExistingFor(p) :
        /\ d.type = call[p].tableName
        /\ d.roomId = call[p].roomId
        /\ d.embedding # NoEmbedding
        /\ ~IsNaN(cosineSimilarity(call[p].embedding, d.embedding))}

\* C28: a candidate whose cosine similarity to the query is undefined (a
\* vector of zero magnitude) ranks last and is never a match: a fallback
\* memory search puts it after every candidate with a defined similarity,
\* and createMemory does not mark a record non-unique because of it.
C28_UndefinedSimilarityNeverMatches ==
    \A p \in Callers :
        /\ (/\ call[p].op \in {"searchMemories", "createMemory"}
             /\ local[p].fallback = "ok"
             /\ \A i \in DOMAIN local[p].raw :
                   ~CosineThrows(call[p].embedding, local[p].raw[i].embedding))
            => \A i, j \in DOMAIN FallbackRanking(p) :
                  (i < j /\ IsNaN(FallbackRanking(p)[i].similarity))
                  => IsNaN(FallbackRanking(p)[j].similarity)
        /\ (CreateMemoryDone(p) /\ call[p].embedding # NoEmbedding)
            => \A m \in InsertedBy(p) :
                  m.unique = FALSE => DefinedCandidates(p) # {}

\* C29: every record searchMemories returns, by the native or the fallback
\* path, records written by createMemory included, has a numeric createdAt
\* and a structured content.
C29_ResultsNormalized ==
    \A p \in Callers :
        (pc[p] = "done" /\ call[p].op = "searchMemories" /\ result[p].status = "ok")
        => \A i \in DOMAIN result[p].value :
              /\ result[p].value[i].createdAt = "number"
              /\ result[p].value[i].content = "object"

----------------------------------------------------------------------------
(* Properties of getCachedEmbeddings.                                      *)

\* A getCachedEmbeddings call of p returned what it scored.
EmbeddingsScored(p) ==
    /\ pc[p] = "done"
    /\ call[p].op = "getCachedEmbeddings"
    /\ local[p].path = "search"

\* The candidates of p's call whose scoring did not throw.
ScorableCandidates(p) ==
    {i \in DOMAIN local[p].raw : ~FieldThrows(local[p].raw[i])}

\* C30: a candidate whose edit-distance scoring throws is absent from the
\* list getCachedEmbeddings returns, every returned element carries an
\* embedding and a numeric levenshtein_score, and the other candidates are
\* still scored and returned.
C30_ScoringFailureIsolated ==
    \A p \in Callers :
        EmbeddingsScored(p)
        => /\ \A i \in DOMAIN result[p].value :
                 /\ result[p].value[i].kind = "scored"
                 /\ result[p].value[i].embedding # NoEmbedding
                 /\ \E k \in ScorableCandidates(p) :
                       result[p].value[i].id = local[p].raw[k].id
           /\ \/ Len(result[p].value) = call[p].match_count
              \/ Len(result[p].value) = Cardinality(ScorableCandidates(p))

----------------------------------------------------------------------------
(* Properties of the edit distance.                                        *)

\* The distance computations the getCachedEmbeddings call of p made.
DistanceCalls(p) ==
    IF pc[p] = "done" /\ call[p].op = "getCachedEmbeddings" /\ local[p].path = "search"
    THEN Range(local[p].cand)
    ELSE {}

\* C31: the distance of a string to itself is 0 and the distance between
\* a string and the empty string, in either order, is the string's length,
\* whatever calls preceded.
C31_LevenshteinBaseCases ==
    \A p \in Callers :
        \A c \in DistanceCalls(p) :
            /\ ~c.threw
            /\ c.str1 = c.str2 => c.value = 0
            /\ c.str2 = <<>> => c.value = Len(c.str1)
            /\ c.str1 = <<>> => c.value = Len(c.str2)

\* One call computed, on a matrix left by earlier calls, the distance of a
\* string to itself and the distance of a string to the empty string.
C31_Witness ==
    \E p \in Callers :
        /\ \E c \in DistanceCalls(p) :
              c.str1 = c.str2 /\ c.str1 # <<>> /\ c.before # <<>>
        /\ \E c \in DistanceCalls(p) :
              c.str2 = <<>> /\ c.str1 # <<>> /\ c.before # <<>>

\* C32: the distance is symmetric: a computed distance of a to b is the
\* distance of b to a, also when this is computed later, on the matrix as
\* further calls have left it.
C32_LevenshteinSymmetry ==
    \A p \in Callers :
        \A c \in DistanceCalls(p) :
            calculateLevenshteinDistanceOptimized(levenshteinMatrix, c.str2, c.str1).value
                = c.value

\* A distance of strings of different lengths was computed, and the matrix
\* has since been replaced by a later computation.
C32_Witness ==
    \E p \in Callers : \E c \in DistanceCalls(p) :
        /\ Len(c.str1) # Len(c.str2)
        /\ Len(c.str1) > 0
        /\ Len(c.str2) > 0
        /\ c.value > 0
        /\ levenshteinMatrix # c.after

RECURSIVE ClassicDistance(_, _)
\* The edit distance by its definition: insertion, deletion and
\* substitution cost 1 each.
ClassicDistance(a, b) ==
    IF a = <<>> THEN Len(b)
    ELSE IF b = <<>> THEN Len(a)
    ELSE Min3(ClassicDistance(Tail(a), Tail(b)) + (IF Head(a) = Head(b) THEN 0 ELSE 1),
              ClassicDistance(Tail(a), b) + 1,
              ClassicDistance(a, Tail(b)) + 1)

\* C33: whatever distance calls preceded, the distance computed on the
\* reused matrix is the classic edit distance.
C33_ReuseIsInvisible ==
    \A p \in Callers :
        \A c \in DistanceCalls(p) :
            ~c.threw /\ c.value = ClassicDistance(c.str1, c.str2)

\* A distance of two different non-empty strings was computed on a matrix
\* that an earlier computation had written and that was not replaced.
C33_Witness ==
    \E p \in Callers : \E c \in DistanceCalls(p) :
        /\ c.str1 # c.str2
        /\ c.str1 # <<>>
        /\ c.str2 # <<>>
        /\ Len(c.before) > 1
        /\ Len(c.before) = Len(c.after)
        /\ Len(c.before[1]) = Len(c.after[1])
        /\ c.before[2][2] # c.after[2][2]

Rows(M) == Len(M)
Cols(M) == IF Len(M) = 0 THEN 0 ELSE Len(M[1])

\* C34: the scratch matrix only grows: no distance computation leaves it
\* with fewer rows or fewer columns than it had.
C34_MatrixOnlyGrows ==
    \A p \in Callers :
        \A c \in DistanceCalls(p) :
            /\ Rows(c.after) >= Rows(c.before)
            /\ Cols(c.after) >= Cols(c.before)

\* The computation c went past the early returns and acquired the matrix.
AcquiredMatrix(c) == c.str1 # c.str2 /\ c.str1 # <<>> /\ c.str2 # <<>>

RowsNeeded(c) == (IF Len(c.str1) > Len(c.str2) THEN Len(c.str2) ELSE Len(c.str1)) + 1
ColsNeeded(c) == (IF Len(c.str1) > Len(c.str2) THEN Len(c.str1) ELSE Len(c.str2)) + 1

\* C39: the matrix a distance computation works on has at least the rows
\* it needs and every one of its rows has at least the columns it needs,
\* for any call history; the internal-consistency error is never raised.
C39_MatrixShape ==
    /\ \A i \in DOMAIN levenshteinMatrix :
          Len(levenshteinMatrix[i]) = Len(levenshteinMatrix[1])
    /\ \A p \in Callers :
          \A c \in DistanceCalls(p) :
              /\ ~c.threw
              /\ AcquiredMatrix(c)
                  => /\ Len(c.after) >= RowsNeeded(c)
                     /\ \A i \in DOMAIN c.after : Len(c.after[i]) >= ColsNeeded(c)

\* A computation found a matrix with enough rows and too few columns.
C39_Witness ==
    \E p \in Callers : \E c \in DistanceCalls(p) :
        /\ AcquiredMatrix(c)
        /\ Len(c.before) >= RowsNeeded(c)
        /\ Len(c.before[1]) < ColsNeeded(c)

\* The distance computations of p's call, in the order they were made.
DistanceCallSeq(p) ==
    IF pc[p] = "done" /\ call[p].op = "getCachedEmbeddings" /\ local[p].path = "search"
    THEN local[p].cand
    ELSE <<>>

\* C35: access to the scratch matrix is serialized: under any interleaving
\* of concurrent getCachedEmbeddings calls each distance computation runs
\* on the matrix the computation before it in the same call left, no other
\* computation writing it in between, and gives the sequential result.
C35_MatrixAccessSerialized ==
    \A p \in Callers :
        LET cs == DistanceCallSeq(p)
        IN  /\ \A i \in DOMAIN cs :
                  /\ cs[i].value = ClassicDistance(cs[i].str1, cs[i].str2)
                  /\ cs[i].after =
                        calculateLevenshteinDistanceOptimized(
                            cs[i].before, cs[i].str1, cs[i].str2).matrix
            /\ \A i \in DOMAIN cs :
                  i > 1 => cs[i].before = cs[i - 1].after

\* Two calls were under way together and the one that resolved second
\* computed on the matrix as the first left it.
C35_Witness ==
    \E p, q \in Callers :
        /\ p # q
        /\ Len(DistanceCallSeq(p)) = 2
        /\ Len(DistanceCallSeq(q)) = 2
        /\ DistanceCallSeq(q)[1].before = DistanceCallSeq(p)[2].after
        /\ DistanceCallSeq(q)[1].before # <<>>
        /\ DistanceCallSeq(q)[1].after # DistanceCallSeq(q)[1].before

----------------------------------------------------------------------------
(* Properties of the cache.                                                *)

\* The entries written within the TTL for a knowledge search of the agent
\* with the query text, whatever else the search was made with.
EntriesForOwnerAndText(agentId, searchText) ==
    {e \in cache : /\ e.agentId = agentId
                   /\ e.key[2] = agentId
                   /\ e.key[3] = searchText
                   /\ now < e.createdAt + CacheTtl}

\* C37: the cache key of a knowledge search depends on the owner id and the
\* query text only: a searchKnowledge call of an agent with a query text
\* for which an entry was written within the TTL is served that entry,
\* whatever its embedding, match_threshold and match_count.
C37_KeyIsOwnerAndText ==
    [][\A p \in Callers :
          (/\ CacheReadStep(p)
           /\ EntriesForOwnerAndText(call[p].agentId, call[p].searchText) # {})
          => /\ local'[p].path = "cache"
             /\ \E e \in EntriesForOwnerAndText(call[p].agentId, call[p].searchText) :
                   result'[p] = Returned(e.value)]_vars

\* A call with the embedding [3,4] was served the result of a search made
\* with the embedding [1,0].
C37_Witness ==
    \E p \in Callers :
        /\ pc[p] = "done"
        /\ call[p].op = "searchKnowledge"
        /\ local[p].path = "cache"
        /\ call[p].embedding = <<3, 4>>
        /\ Len(result[p].value) = 1
        /\ result[p].value[1].similarity = Rat(15, 8)

----------------------------------------------------------------------------
(* Properties of concurrent writes.                                        *)

\* The createMemory call of p has persisted its record after a dedup search
\* by the filtered query, which misses no stored record.
PersistedAfterExactSearch(p) ==
    /\ CreateMemoryDone(p)
    /\ local[p].inserted # "none"
    /\ local[p].path = "fallback"

\* C38: of two createMemory calls with identical embeddings for the same
\* room and type, issued concurrently while no similar record is stored, at
\* most one persists its record with unique = true.
C38_ConcurrentDedup ==
    \A p, q \in Callers :
        (/\ p # q
         /\ PersistedAfterExactSearch(p)
         /\ PersistedAfterExactSearch(q)
         /\ call[p].embedding = call[q].embedding
         /\ call[p].roomId = call[q].roomId
         /\ call[p].tableName = call[q].tableName)
        => \E m \in InsertedBy(p) \cup InsertedBy(q) : m.unique = FALSE

\* C36: at most one live value exists per (key, agentId): the unexpired
\* entries of one key and owner all carry the value of the latest setCache.
C36_OneLiveValue ==
    \A e1, e2 \in cache :
        (/\ e1.key = e2.key
         /\ e1.agentId = e2.agentId
         /\ e1.expiresAt > now
         /\ e2.expiresAt > now)
        => e1.value = e2.value

============================================================================
